---- MODULE Spec2Model ----
(***************************************************************************)
(* Model of the breakout-session validation engine of tpac-breakouts:      *)
(* tools/lib/validate.mjs (validateSession), tools/lib/session.mjs (the    *)
(* section handlers, validateSessionBody, parseSessionBody),               *)
(* tools/lib/chairs.mjs and the parts of tools/lib/project.mjs they read.  *)
(*                                                                         *)
(* JavaScript values are tagged records: [t |-> "string", v |-> ...],      *)
(* [t |-> "number", ...], [t |-> "array", ...], [t |-> "object", ...],     *)
(* Null and Undefined.  Room and slot names are plain strings, the empty   *)
(* string standing for an absent (falsy) value.  Times are in hours.       *)
(***************************************************************************)
EXTENDS Integers, Sequences, FiniteSets, TLC

VARIABLES
  project,        \* the project snapshot returned by fetchProject
  requested,      \* the session number the tool was started with
  description,    \* session.description of each session of project.sessions
  chairs,         \* session.chairs of each session of project.sessions
  outcome,        \* what the last call to validateSession did
  previous,       \* what the call before it did
  tool            \* the run of a tool around validateSession: input and effects

vars == <<project, requested, description, chairs, outcome, previous, tool>>

----------------------------------------------------------------------------
(* Bounds of the model.                                                    *)

NumSessions == 2

----------------------------------------------------------------------------
(* JavaScript values.                                                      *)

Undefined == [t |-> "undefined"]
Null == [t |-> "null"]
Str(s) == [t |-> "string", v |-> s]
Num(n) == [t |-> "number", v |-> n]
Arr(s) == [t |-> "array", v |-> s]
Obj(f) == [t |-> "object", v |-> f]

\* ToBoolean, as used by `!x`, `!!x`, `a && b` and `if (x)`.
Truthy(x) ==
  CASE x.t = "undefined" -> FALSE
    [] x.t = "null" -> FALSE
    [] x.t = "string" -> x.v # ""
    [] x.t = "number" -> x.v # 0
    [] OTHER -> TRUE

\* obj[key] on an object: the own property, or undefined.
Prop(obj, key) == IF key \in DOMAIN obj.v THEN obj.v[key] ELSE Undefined

\* array.map(F), built element by element
RECURSIVE Map(_, _)
Map(F(_), s) == IF s = <<>> THEN <<>> ELSE <<F(Head(s))>> \o Map(F, Tail(s))

\* .filter(x => !!x) on a list of messages and nulls.
Compact(s) == SelectSeq(s, LAMBDA x: x # Null)

RECURSIVE Flatten(_)
Flatten(ss) == IF ss = <<>> THEN <<>> ELSE Head(ss) \o Flatten(Tail(ss))

\* `const x = v; F(x)`: v is evaluated once, then F on its value.
Const(v, F(_)) == CHOOSE y \in {F(x) : x \in {v}} : TRUE

----------------------------------------------------------------------------
(* Issue bodies.  A body is the markdown of an issue form: a list of       *)
(* "### heading" blocks.  The content of a block is free text, a list of   *)
(* whitespace/comma separated tokens, or a list of lines.                  *)

Text(s) == [t |-> "text", v |-> s, nl |-> FALSE]
MultiLine(s) == [t |-> "text", v |-> s, nl |-> TRUE]
Tokens(ts) == [t |-> "tokens", v |-> ts, nl |-> FALSE]
Lines(ls) == [t |-> "lines", v |-> ls, nl |-> Len(ls) > 1]
Tok(first, rest) == [first |-> first, rest |-> rest]
\* A line "- Kind: value" of the materials section, or any other line.
Item(kind, val) == [bullet |-> TRUE, kind |-> kind, val |-> val]
Junk(val) == [bullet |-> FALSE, kind |-> "", val |-> val]
Block(heading, content) == [heading |-> heading, content |-> content]

\* section[0].replace(/ \(Optional\)$/, '')
StripOptional(h) ==
  CASE h = "Additional session chairs (Optional)" -> "Additional session chairs"
    [] h = "IRC channel (Optional)" -> "IRC channel"
    [] h = "Scheduling conflicts (Optional)" -> "Scheduling conflicts"
    [] h = "Comments (Optional)" -> "Comments"
    [] OTHER -> h

\* value.replace(/^_(.*)_$/, '$1') === 'No response'
IsNoResponse(content) ==
  content.t = "text" /\ content.v \in {"_No response_", "No response"}

splitIntoSections(body) ==
  Map(LAMBDA b: [title |-> StripOptional(b.heading),
                 value |-> IF IsNoResponse(b.content) THEN Null ELSE b.content],
      body)

\* Truthiness of a section value: null and the empty text are falsy.
HasValue(value) ==
  /\ value # Null
  /\ ~(value.t = "text" /\ value.v = "")

----------------------------------------------------------------------------
(* Section handlers (the issue template and the custom logic added to it). *)

CapacityOptions ==
  <<"Don't know (Default)", "Small (fewer than 20 people)",
    "Large (20-45 people)", "Really quite large (more than 45 people)">>
AttendanceOptions ==
  <<"Anyone may attend (Default)", "Restricted to TPAC registrants">>
DurationOptions == <<"60 minutes (Default)", "30 minutes">>

Handler(id, title, required, type, options) ==
  [id |-> id, title |-> title, required |-> required, type |-> type,
   options |-> options]

\* The sections of the issue template: id, title, required flag and type.
sectionHandlers ==
  << Handler("description", "Session description", TRUE, "textarea", <<>>),
     Handler("goal", "Session goal(s)", TRUE, "input", <<>>),
     Handler("chairs", "Additional session chairs", FALSE, "input", <<>>),
     Handler("shortname", "IRC channel", FALSE, "input", <<>>),
     Handler("attendance", "Attendance", TRUE, "dropdown", AttendanceOptions),
     Handler("duration", "Session duration", TRUE, "dropdown", DurationOptions),
     Handler("conflicts", "Scheduling conflicts", FALSE, "input", <<>>),
     Handler("capacity", "Room capacity", TRUE, "dropdown", CapacityOptions),
     Handler("comments", "Comments", FALSE, "textarea", <<>>),
     Handler("materials", "Meeting materials", TRUE, "textarea", <<>>) >>

Includes(s, x) == \E i \in 1..Len(s): s[i] = x

\* sectionHandlers.find(handler => handler.title === section.title)
findHandler(title) ==
  IF \E i \in 1..Len(sectionHandlers): sectionHandlers[i].title = title
  THEN sectionHandlers[CHOOSE i \in 1..Len(sectionHandlers):
                         /\ sectionHandlers[i].title = title
                         /\ \A j \in 1..(i - 1): sectionHandlers[j].title # title]
  ELSE Undefined

\* new URL(s) succeeds: s is an absolute URL.
IsURL(s) == s \in {"https://example.org/agenda", "https://example.org/minutes"}

AlphaNumeric == {"a", "b", "c", "0", "1", "2", "3", "9"}
DigitStrings == <<"1", "2", "3", "4", "5", "6", "7", "8", "9">>
IsDigits(s) == Includes(DigitStrings, s)
\* parseInt(s, 10); NaN is modelled as 0 - 1
ParseInt(s) ==
  IF IsDigits(s) THEN CHOOSE n \in 1..Len(DigitStrings): DigitStrings[n] = s
  ELSE 0 - 1

\* value.split(/[\s,]/).map(trim).filter(x => !!x)
SplitTokens(value) == IF value.t = "tokens" THEN value.v ELSE <<Tok(value.v, "")>>

\* line.match(/^-\s+(Agenda|Slides|Minutes|Calendar):\s*(.*)$/)
MaterialKinds == {"Agenda", "Slides", "Minutes", "Calendar"}
MatchMaterial(line) ==
  IF line.bullet /\ line.kind \in MaterialKinds
  THEN [t |-> "match", kind |-> line.kind, val |-> line.val] ELSE Null
SplitLines(value) == IF value.t = "lines" THEN value.v ELSE <<Junk(value.v)>>

\* The placeholders that the materials validator lets through.
AcceptedPlaceholders == {"@@", "TDB", "TODO"}

\* handler.validate(value), value being non-empty.
handlerValidate(handler, value) ==
  CASE handler.id = "chairs" ->
         \A i \in 1..Len(SplitTokens(value)):
            LET nick == SplitTokens(value)[i] IN
            /\ nick.first = "@"
            /\ nick.first \in AlphaNumeric /\ nick.rest # ""
    [] handler.id = "shortname" -> value.v # "!!!"
    [] handler.id = "conflicts" ->
         \A i \in 1..Len(SplitTokens(value)):
            LET issue == SplitTokens(value)[i] IN
            issue.first = "#" /\ IsDigits(issue.rest)
    [] handler.id = "materials" ->
         \A i \in 1..Len(SplitLines(value)):
            LET match == MatchMaterial(SplitLines(value)[i]) IN
            IF match = Null THEN FALSE
            ELSE IF match.val \notin AcceptedPlaceholders THEN IsURL(match.val)
            ELSE TRUE
    [] handler.type = "dropdown" -> Includes(handler.options, value.v)
    [] handler.type = "input" -> ~value.nl
    [] OTHER -> TRUE

\* A message: the template text and the values interpolated in it.
Msg(text, room, slot, title, number, track) ==
  [text |-> text, room |-> room, slot |-> slot, title |-> title,
   number |-> number, track |-> track]
SectionMsg(text, title) == Msg(text, "", "", title, 0, "")

\* validateSessionBody: the list of format errors of a body.
validateSessionBody(body) ==
  Compact(Map(LAMBDA section:
      LET sectionHandler == findHandler(section.title) IN
      IF sectionHandler = Undefined
        THEN SectionMsg("Unexpected section", section.title)
      ELSE IF ~HasValue(section.value) /\ sectionHandler.required
        THEN SectionMsg("Unexpected empty section", section.title)
      ELSE IF HasValue(section.value) /\ ~handlerValidate(sectionHandler, section.value)
        THEN SectionMsg("Invalid content in section", section.title)
      ELSE Null,
    splitIntoSections(body)))

\* handler.parse(value), value being non-empty; [threw, value].
Parsed(v) == [threw |-> FALSE, value |-> v]
ParseThrew == [threw |-> TRUE, value |-> Undefined]

LastIndexOf(s, P(_)) == CHOOSE i \in 1..Len(s): P(s[i]) /\ \A j \in (i + 1)..Len(s): ~P(s[j])

handlerParse(handler, value) ==
  CASE handler.id = "chairs" ->
         Parsed(Arr(Map(LAMBDA nick: Str(nick.rest), SplitTokens(value))))
    [] handler.id = "attendance" ->
         Parsed(Str(IF value.v = "Restricted to TPAC registrants"
                    THEN "restricted" ELSE "public"))
    [] handler.id = "duration" ->
         Parsed(Num(IF value.v = "30 minutes" THEN 30 ELSE 60))
    [] handler.id = "conflicts" ->
         Parsed(Arr(Map(LAMBDA issue: Num(ParseInt(issue.rest)), SplitTokens(value))))
    [] handler.id = "capacity" ->
         Parsed(CASE value.v = "Don't know (Default)" -> Num(0)
                  [] value.v = "Small (fewer than 20 people)" -> Num(15)
                  [] value.v = "Large (20-45 people)" -> Num(30)
                  [] value.v = "Really quite large (more than 45 people)" -> Num(50)
                  [] OTHER -> Undefined)
    [] handler.id = "materials" ->
         LET matches == Map(MatchMaterial, SplitLines(value))
             kinds == {matches[i].kind : i \in {j \in 1..Len(matches): matches[j] # Null}}
         IN  IF \E i \in 1..Len(matches): matches[i] = Null THEN ParseThrew
             ELSE Parsed(Obj([k \in kinds |->
                    Str(matches[LastIndexOf(matches, LAMBDA m: m.kind = k)].val)]))
    [] OTHER -> Parsed(Str(value.v))

\* parseSessionBody: the description object of a body; [threw, value].
parseSessionBody(body) ==
  LET sections == splitIntoSections(body)
      input(section) ==
        LET sectionHandler == findHandler(section.title) IN
        IF sectionHandler = Undefined THEN [threw |-> TRUE, id |-> "", value |-> Undefined]
        ELSE LET p == IF HasValue(section.value)
                      THEN handlerParse(sectionHandler, section.value)
                      ELSE Parsed(Null)
             IN  [threw |-> p.threw, id |-> sectionHandler.id, value |-> p.value]
      inputs == Map(input, sections)
      ids == {inputs[i].id : i \in 1..Len(inputs)}
  IN  IF \E i \in 1..Len(inputs): inputs[i].threw THEN ParseThrew
      ELSE Parsed(Obj([id \in ids |->
             inputs[LastIndexOf(inputs, LAMBDA in: in.id = id)].value]))

----------------------------------------------------------------------------
(* Chairs.                                                                 *)

Chair(login, name, databaseId, w3cId) ==
  [login |-> login, name |-> name, databaseId |-> databaseId, w3cId |-> w3cId]

\* The answers of the W3C API to fetchW3CAccount(databaseId).
W3CAnswers == {"found", "none"}
W3CIdOf(databaseId) == Num(databaseId.v + 1000)

\* fetchSessionChairs(session): the author, then the chairs of the
\* description.  chairs2W3CID is not passed by validateSession.
\* [threw, value]
fetchSessionChairs(session, desc, w3c) ==
  LET authorChairs ==
        IF session.author # Null
        THEN << Chair(session.author.login, Undefined, session.author.databaseId,
                      IF w3c = "found" THEN W3CIdOf(session.author.databaseId)
                      ELSE Undefined) >>
        ELSE <<>>
      \* Object.assign({}, chairDesc) of a string has neither login nor name
      more == IF Truthy(Prop(desc, "chairs"))
              THEN Map(LAMBDA chairDesc: Chair(Undefined, Undefined, Undefined, Undefined),
                       Prop(desc, "chairs").v)
              ELSE <<>>
  IN  IF session.author # Null /\ w3c = "error" THEN ParseThrew
      ELSE Parsed(Arr(authorChairs \o more))

\* validateSessionChairs: [threw, value], value the list of errors.
validateSessionChairs(list) ==
  LET check(chair) ==
        IF Truthy(chair.login) THEN
          IF ~Truthy(chair.databaseId)
            THEN Msg("No GitHub account associated with", "", "", chair.login.v, 0, "")
          ELSE IF ~Truthy(chair.w3cId)
            THEN Msg("No W3C account linked to the GitHub account", "", "", chair.login.v, 0, "")
          ELSE Null
        ELSE IF Truthy(chair.name) THEN
          IF ~Truthy(chair.w3cId)
            THEN Msg("No W3C account linked to", "", "", chair.name.v, 0, "")
          ELSE Null
        ELSE Undefined
      results == Map(check, list)
  IN  IF \E i \in 1..Len(results): results[i] = Undefined
      THEN [threw |-> TRUE, value |-> <<>>]
      ELSE [threw |-> FALSE, value |-> Compact(results)]

----------------------------------------------------------------------------
(* The issue bodies of the model.  A session holds the name of its body,   *)
(* bodyOf gives the text.                                                  *)

NoResponse == Text("_No response_")
AgendaUrl == "https://example.org/agenda"
MinutesUrl == "https://example.org/minutes"
Materials(lines) == <<Block("Meeting materials", Lines(lines))>>

Form(chairList, conflicts, capacity, comments, materials) ==
  << Block("Session description", MultiLine("About the session")),
     Block("Session goal(s)", Text("Agree on next steps")),
     Block("Additional session chairs (Optional)", chairList),
     Block("IRC channel (Optional)", NoResponse),
     Block("Attendance", Text("Anyone may attend (Default)")),
     Block("Session duration", Text("60 minutes (Default)")),
     Block("Scheduling conflicts (Optional)", conflicts),
     Block("Room capacity", Text(capacity)),
     Block("Comments (Optional)", comments) >> \o materials

Links == Materials(<<Item("Agenda", AgendaUrl), Item("Minutes", MinutesUrl)>>)
Issues(numbers) == Tokens(Map(LAMBDA n: Tok("#", n), numbers))

issueBodies ==
  [ plain |-> Form(NoResponse, NoResponse, "Don't know (Default)", NoResponse, Links),
    comments |-> Form(NoResponse, NoResponse, "Don't know (Default)",
                      Text("Please avoid the first slot"), Links),
    nomaterials |-> Form(NoResponse, NoResponse, "Don't know (Default)", NoResponse, <<>>),
    emptymaterials |-> Form(NoResponse, NoResponse, "Don't know (Default)", NoResponse,
                            <<Block("Meeting materials", NoResponse)>>),
    placeholder |-> Form(NoResponse, NoResponse, "Don't know (Default)", NoResponse,
                         Materials(<<Item("Agenda", "@@"), Item("Minutes", "TODO")>>)),
    tbd |-> Form(NoResponse, NoResponse, "Don't know (Default)", NoResponse,
                 Materials(<<Item("Agenda", "TBD")>>)),
    broken |-> Form(NoResponse, NoResponse, "As large as possible", NoResponse,
                    Materials(<<Junk("See the wiki")>>))
               \o <<Block("Anything else", Text("Thanks"))>>,
    cochair |-> Form(Tokens(<<Tok("@", "bob")>>), NoResponse, "Don't know (Default)",
                     NoResponse, Links),
    conflict1 |-> Form(NoResponse, Issues(<<"1">>), "Don't know (Default)", NoResponse, Links),
    conflict2 |-> Form(NoResponse, Issues(<<"2">>), "Don't know (Default)", NoResponse, Links),
    conflict9 |-> Form(NoResponse, Issues(<<"9">>), "Don't know (Default)", NoResponse, Links),
    conflict12 |-> Form(NoResponse, Issues(<<"1", "2">>), "Don't know (Default)",
                        NoResponse, Links),
    conflict92 |-> Form(NoResponse, Issues(<<"9", "2">>), "Large (20-45 people)",
                        NoResponse, Links),
    small |-> Form(NoResponse, NoResponse, "Small (fewer than 20 people)", NoResponse, Links),
    large |-> Form(NoResponse, NoResponse, "Large (20-45 people)", NoResponse, Links) ]

BodyNames == DOMAIN issueBodies

\* Previous versions of the body "comments": the same text, the comments
\* reworded, the same comments next to a capacity that is not an option, the
\* same comments under a section the template does not have.
previousBodies ==
  [ same |-> Form(NoResponse, Issues(<<"2">>), "Don't know (Default)",
                  Text("Please avoid the first slot"), Links),
    reworded |-> Form(NoResponse, NoResponse, "Don't know (Default)",
                      Text("Please avoid the last slot"), Links),
    nocomments |-> Form(NoResponse, NoResponse, "Don't know (Default)", NoResponse, Links),
    muddled |-> Form(NoResponse, NoResponse, "As large as possible",
                     Text("Please avoid the first slot"), Links),
    unparsable |-> Form(NoResponse, NoResponse, "Don't know (Default)",
                        Text("Please avoid the first slot"), Links)
                   \o <<Block("Anything else", Text("Thanks"))>> ]

\* The text of a version of the body, and the body of a session.
revisionOf(name) == IF name \in BodyNames THEN issueBodies[name] ELSE previousBodies[name]
bodyOf(session) == revisionOf(session.body)


----------------------------------------------------------------------------
(* The project snapshot.                                                   *)

RoomOptions == <<"Room A (15)", "Room B (30)">>
SlotOptions == <<"9:30 - 10:30", "11:00 - 12:00">>
\* The options of a Room field that has a room named as an array index.
NumberedRoomOptions == <<"Room A (15)", "0">>

\* room.name.match(/(.*) \((\d+)\)$/) ?? [room.name, room.name, '30']
RoomMatch(name) ==
  CASE name = "Room A (15)" -> <<name, "Room A", 15>>
    [] name = "Room B (30)" -> <<name, "Room B", 30>>
    [] OTHER -> <<name, name, 30>>

\* fetchProject: the rooms of the snapshot, an array of records.
fetchProjectRooms(options) ==
  Arr(Map(LAMBDA name: [name |-> RoomMatch(name)[1], label |-> RoomMatch(name)[2],
                        capacity |-> RoomMatch(name)[3]], options))

fetchProjectSlots(options) == Arr(Map(LAMBDA name: [name |-> name], options))

\* array[key] for a string key: an element when the key is an index,
\* undefined otherwise.
IndexKeys == <<"0", "1", "2", "3">>
ArrayProp(array, key) ==
  IF \E i \in 1..Len(array.v): i <= Len(IndexKeys) /\ IndexKeys[i] = key
  THEN array.v[CHOOSE i \in 1..Len(array.v): i <= Len(IndexKeys) /\ IndexKeys[i] = key]
  ELSE Undefined

\* validateProject: the list of structural errors of a snapshot.
validateProject(proj) ==
  (IF proj.rooms.t # "array" \/ proj.rooms.v = <<>>
   THEN <<"The project does not have a Room field with options">> ELSE <<>>)
  \o
  (IF proj.slots.t # "array" \/ proj.slots.v = <<>>
   THEN <<"The project does not have a Slot field with options">> ELSE <<>>)

\* A lookup that falls back on the first session of the project.
findSessionOrFirst(sessions, number) ==
  IF \E i \in 1..Len(sessions): sessions[i].number = number
  THEN CHOOSE i \in 1..Len(sessions):
         /\ sessions[i].number = number
         /\ \A j \in 1..(i - 1): sessions[j].number # number
  ELSE 1
\* A lookup that stops at the first session, whatever its number.
findSessionFirst(sessions, number) == IF sessions = <<>> THEN 0 ELSE 1
\* project.sessions.find(s => s.number === number): its index, 0 if none.
findSession(sessions, number) ==
  IF \E i \in 1..Len(sessions): sessions[i].number = number
  THEN CHOOSE i \in 1..Len(sessions):
         /\ sessions[i].number = number
         /\ \A j \in 1..(i - 1): sessions[j].number # number
  ELSE 0

\* label.startsWith('track: ')
Label(prefix, name) == [prefix |-> prefix, name |-> name]
StartsWith(label, prefix) == label.prefix = prefix

----------------------------------------------------------------------------
(* validateSession and its rules.  A rule yields the issues it pushes, or  *)
(* the exception it throws.                                                *)

Issue(session, severity, type, messages) ==
  [session |-> session, severity |-> severity, type |-> type, messages |-> messages]
\* An issue pushed without a `messages` property.
BareIssue(session, severity, type) ==
  [session |-> session, severity |-> severity, type |-> type]

Ok(issues) == [threw |-> FALSE, error |-> "", issues |-> issues]
Throw(error) == [threw |-> TRUE, error |-> error, issues |-> <<>>]
IssueIf(messages, issue) == Ok(IF Len(messages) > 0 THEN <<issue>> ELSE <<>>)

Indices(s) == [i \in 1..Len(s) |-> i]

\* validate.mjs 71-79
chairsRule(sessionNumber, chairList) ==
  LET chairsErrors == validateSessionChairs(chairList.v) IN
  IF chairsErrors.threw
  THEN Throw("Error: Invalid chair object received in the list to validate")
  ELSE IssueIf(chairsErrors.value,
               Issue(sessionNumber, "error", "chairs", chairsErrors.value))

\* validate.mjs 83-96: the messages of the conflict existence check
conflictErrors(sessionNumber, desc, sessions) ==
  IF Truthy(Prop(desc, "conflicts"))
  THEN Compact(Map(LAMBDA number:
         IF number.v = sessionNumber
           THEN Msg("Session cannot conflict with itself", "", "", "", 0, "")
         ELSE IF findSession(sessions, number.v) = 0
           THEN Msg("Conflicting session is not in the project", "", "", "", number.v, "")
         ELSE Null,
       Prop(desc, "conflicts").v))
  ELSE <<>>

\* validate.mjs 97-104
conflictErrorsRule(sessionNumber, desc, sessions) ==
  IssueIf(conflictErrors(sessionNumber, desc, sessions),
          Issue(sessionNumber, "error", "conflict",
                conflictErrors(sessionNumber, desc, sessions)))

\* validate.mjs 108
isScheduled(session) == session.room # "" /\ session.slot # ""

\* validate.mjs 109-122
schedulingRule(sessionNumber, idx, sessions) ==
  LET session == sessions[idx]
      colliding == SelectSeq(Indices(sessions), LAMBDA i:
                     /\ i # idx /\ sessions[i].room # "" /\ sessions[i].slot # ""
                     /\ sessions[i].room = session.room
                     /\ sessions[i].slot = session.slot)
      schedulingErrors ==
        Map(LAMBDA i: Msg("Session scheduled in same room and same slot as session",
                          sessions[i].room, sessions[i].slot,
                          sessions[i].title, sessions[i].number, ""),
            colliding)
  IN  IF isScheduled(session)
      THEN IssueIf(schedulingErrors,
                   Issue(sessionNumber, "error", "scheduling", schedulingErrors))
      ELSE Ok(<<>>)

\* validate.mjs 125-134
capacityRule(sessionNumber, session, desc, rooms) ==
  IF session.room # "" /\ Truthy(Prop(desc, "capacity"))
  THEN LET room == ArrayProp(rooms, session.room) IN
       IF room = Undefined
       THEN Throw("TypeError: room is undefined")
       ELSE IF room.capacity < Prop(desc, "capacity").v
            THEN Ok(<<BareIssue(sessionNumber, "warning", "capacity")>>)
            ELSE Ok(<<>>)
  ELSE Ok(<<>>)

\* validate.mjs 138-156
conflictWarningsRule(sessionNumber, session, desc, sessions, hasConflictErrors) ==
  IF ~hasConflictErrors /\ session.slot # "" /\ Truthy(Prop(desc, "conflicts"))
  THEN LET numbers == Prop(desc, "conflicts").v
           conflictWarnings ==
             Compact(Map(LAMBDA number:
               LET conflictingSession == sessions[findSession(sessions, number.v)] IN
               IF conflictingSession.slot = session.slot
               THEN Msg("Same slot as conflicting session", "", session.slot,
                        conflictingSession.title, conflictingSession.number, "")
               ELSE Null,
             numbers))
       IN  IF \E i \in 1..Len(numbers): findSession(sessions, numbers[i].v) = 0
           THEN Throw("TypeError: conflictingSession is undefined")
           ELSE IssueIf(conflictWarnings,
                        Issue(sessionNumber, "warning", "conflict", conflictWarnings))
  ELSE Ok(<<>>)

\* validate.mjs 160-173: the messages gathered over all the tracks
tracksWarnings(idx, sessions) ==
  LET session == sessions[idx]
      tracks == SelectSeq(session.labels, LAMBDA label: StartsWith(label, "track: "))
      trackWarnings(track) ==
        LET sessionsInSameTrack ==
              SelectSeq(Indices(sessions), LAMBDA i:
                i # idx /\ Includes(sessions[i].labels, track))
        IN  Compact(Map(LAMBDA i:
              IF sessions[i].slot = session.slot
              THEN Msg("Same slot as session in same track", "", session.slot,
                       sessions[i].title, sessions[i].number, track.name)
              ELSE Null,
            sessionsInSameTrack))
  IN  Flatten(Map(trackWarnings, tracks))

\* validate.mjs 159-182.  The issue pushed at 175-180 reads `trackWarnings`,
\* a const of the block of the for loop (164), from outside that block:
\* evaluating the object literal throws a ReferenceError.
trackRule(sessionNumber, idx, sessions) ==
  IF sessions[idx].slot # ""
  THEN IF Len(tracksWarnings(idx, sessions)) > 0
       THEN Throw("ReferenceError: trackWarnings is not defined")
       ELSE Ok(<<>>)
  ELSE Ok(<<>>)

\* validate.mjs 185-192
commentsRule(sessionNumber, desc) ==
  IF Truthy(Prop(desc, "comments"))
  THEN Ok(<<Issue(sessionNumber, "check", "comments",
                  <<Msg("Session contains comments", "", "", "", 0, "")>>)>>)
  ELSE Ok(<<>>)

\* String.prototype.toUpperCase on the material values of the model
ToUpperCase(s) ==
  CASE s = "tbd" -> "TBD"
    [] s = "todo" -> "TODO"
    [] s = "tdb" -> "TDB"
    [] s = "https://example.org/agenda" -> "HTTPS://EXAMPLE.ORG/AGENDA"
    [] s = "https://example.org/minutes" -> "HTTPS://EXAMPLE.ORG/MINUTES"
    [] OTHER -> s

MissingSentinels == {"@", "@@", "@@@", "TBD", "TODO"}

\* validate.mjs 194-197; [threw, value]
isMaterialMissing(desc, name) ==
  LET materials == Prop(desc, "materials") IN
  IF materials.t # "object" THEN [threw |-> TRUE, value |-> FALSE]
  ELSE [threw |-> FALSE,
        value |-> \/ ~Truthy(Prop(materials, name))
                  \/ ToUpperCase(Prop(materials, name).v) \in MissingSentinels]

twoDaysInHours == 48

\* validate.mjs 202-205 and 217-220
inLessThanTwoDays(date, now) == (date - now) < twoDaysInHours
atLeastTwoDaysOld(date, now) == (now - date) > twoDaysInHours

\* validate.mjs 206-213 and 221-228: `scheduled && isMaterialMissing(name) && due`
materialRule(sessionNumber, session, desc, name, due, text) ==
  IF ~isScheduled(session) THEN Ok(<<>>)
  ELSE IF isMaterialMissing(desc, name).threw
       THEN Throw("TypeError: session.description.materials is undefined")
  ELSE IF isMaterialMissing(desc, name).value /\ due
       THEN Ok(<<Issue(sessionNumber, "warning", name,
                       <<Msg(text, "", "", "", 0, "")>>)>>)
  ELSE Ok(<<>>)

\* The rules in the order of validate.mjs 71-228.
rules(sessionNumber, idx, proj, desc, chairList, now) ==
  LET session == proj.sessions[idx]
      hasConflictErrors == Len(conflictErrors(sessionNumber, desc, proj.sessions)) > 0
  IN  << chairsRule(sessionNumber, chairList),
         conflictErrorsRule(sessionNumber, desc, proj.sessions),
         schedulingRule(sessionNumber, idx, proj.sessions),
         capacityRule(sessionNumber, session, desc, proj.rooms),
         conflictWarningsRule(sessionNumber, session, desc, proj.sessions,
                              hasConflictErrors),
         trackRule(sessionNumber, idx, proj.sessions),
         commentsRule(sessionNumber, desc),
         materialRule(sessionNumber, session, desc, "agenda",
                      inLessThanTwoDays(proj.metadata.date, now),
                      "Session needs a link to an agenda"),
         materialRule(sessionNumber, session, desc, "minutes",
                      atLeastTwoDaysOld(proj.metadata.date, now),
                      "Session needs a link to the minutes") >>

\* Runs the rules in order: the issues of all of them, or the first exception.
runRules(results) ==
  Const(results, LAMBDA rs:
    IF \E i \in 1..Len(rs): rs[i].threw
    THEN rs[CHOOSE i \in 1..Len(rs): rs[i].threw /\ \A j \in 1..(i - 1): ~rs[j].threw]
    ELSE Ok(Flatten(Map(LAMBDA r: r.issues, rs))))

Outcome(kind, number, now, error, issues) ==
  [kind |-> kind, number |-> number, now |-> now, error |-> error, issues |-> issues]
NoCall == Outcome("none", 0, 0, "", <<>>)

Result(o, descs, chrs) == [outcome |-> o, description |-> descs, chairs |-> chrs]

\* validate.mjs 51: the body is validated and parsed unless already done
needsParsing(cached) == ~Truthy(cached)
\* A validation that asks again for the chairs that have no W3C id.
needsChairsUnresolved(cached) ==
  ~Truthy(cached) \/ \E k \in 1..Len(cached.v): ~Truthy(cached.v[k].w3cId)
\* A validation that fetches the chairs each time.
needsChairsAlways(cached) == TRUE
\* validate.mjs 68: the chairs are fetched unless already done
needsChairs(cached) == ~Truthy(cached)
\* A validation that goes on after a single format error.
formatErrorsStopSeveral(formatErrors) == Len(formatErrors) > 1
\* validate.mjs 54: format errors end the validation
formatErrorsStop(formatErrors) == Len(formatErrors) > 0

Thrown(sessionNumber, now, error, descs, chrs) ==
  Result(Outcome("thrown", sessionNumber, now, error, <<>>), descs, chrs)
Returned(sessionNumber, now, issues, descs, chrs) ==
  Result(Outcome("returned", sessionNumber, now, "", issues), descs, chrs)

\* validate.mjs 71-230: the rules, the description and the chairs being known
validateRules(sessionNumber, proj, idx, descs, chrs, now) ==
  Const(runRules(rules(sessionNumber, idx, proj, descs[idx], chrs[idx], now)),
        LAMBDA run:
          IF run.threw THEN Thrown(sessionNumber, now, run.error, descs, chrs)
          ELSE Returned(sessionNumber, now, run.issues, descs, chrs))

\* validate.mjs 67-230: the chairs and the rules, the description being known
validateChairs(sessionNumber, proj, idx, descs, chrs, now, w3c) ==
  IF needsChairs(chrs[idx])
  THEN Const(fetchSessionChairs(proj.sessions[idx], descs[idx], w3c),
             LAMBDA fetched:
               IF fetched.threw
               THEN Thrown(sessionNumber, now, "Error: W3C API server error", descs, chrs)
               ELSE Const([chrs EXCEPT ![idx] = fetched.value],
                          LAMBDA chrs1:
                            validateRules(sessionNumber, proj, idx, descs, chrs1, now)))
  ELSE validateRules(sessionNumber, proj, idx, descs, chrs, now)

\* validate.mjs 50-230: the session being found
validateBody(sessionNumber, proj, idx, descs, chrs, now, w3c) ==
  IF needsParsing(descs[idx])
  THEN Const(validateSessionBody(bodyOf(proj.sessions[idx])),
             LAMBDA formatErrors:
               IF formatErrorsStop(formatErrors)
               THEN Returned(sessionNumber, now,
                             <<Issue(sessionNumber, "error", "format", formatErrors)>>,
                             descs, chrs)
               ELSE Const(parseSessionBody(bodyOf(proj.sessions[idx])),
                          LAMBDA parsed:
                            IF parsed.threw
                            THEN Thrown(sessionNumber, now, "TypeError: parseSessionBody",
                                        descs, chrs)
                            ELSE Const([descs EXCEPT ![idx] = parsed.value],
                                       LAMBDA descs1:
                                         validateChairs(sessionNumber, proj, idx,
                                                        descs1, chrs, now, w3c))))
  ELSE validateChairs(sessionNumber, proj, idx, descs, chrs, now, w3c)

\* validateSession(sessionNumber, project) called at time `now`, the W3C API
\* answering `w3c`: the outcome and the description and chairs of the
\* sessions afterwards.
validateSession(sessionNumber, proj, descs, chrs, now, w3c) ==
  IF Len(validateProject(proj)) > 0
  THEN Thrown(sessionNumber, now, "Error: Project is invalid", descs, chrs)
  ELSE Const(findSession(proj.sessions, sessionNumber),
             LAMBDA idx:
               IF idx = 0
               THEN Thrown(sessionNumber, now, "Error: Session is not in project",
                           descs, chrs)
               ELSE validateBody(sessionNumber, proj, idx, descs, chrs, now, w3c))

----------------------------------------------------------------------------
(* The state machine: a run of a tool (update-session-labels.mjs,          *)
(* update-calendar.mjs) on a fetched project and a session number, calling *)
(* validateSession any number of times.                                    *)

SessionLabel == Label("", "session")
Privacy == Label("track: ", "privacy")
Media == Label("track: ", "media")

Place(room, slot, labels) == [room |-> room, slot |-> slot, labels |-> labels]
Unplaced == Place("", "", <<SessionLabel>>)

\* Where the other sessions sit in the grid: room, slot and labels.
OtherPlacements ==
  { Unplaced,
    Place("Room A (15)", "9:30 - 10:30", <<SessionLabel>>),
    Place("Room B (30)", "9:30 - 10:30", <<SessionLabel, Privacy, Media>>),
    Place("Room A (15)", "11:00 - 12:00", <<SessionLabel, Privacy>>) }

\* Where the session that is validated sits.
Placements ==
  OtherPlacements \cup
  { Place("Room A (15)", "", <<SessionLabel>>),
    Place("", "9:30 - 10:30", <<SessionLabel, Privacy>>),
    Place("Room A (15)", "9:30 - 10:30", <<SessionLabel, Privacy>>) }

\* The bodies that fail the format check: their validation reads nothing else.
MalformedBodies == {b \in BodyNames: validateSessionBody(issueBodies[b]) # <<>>}

Titles == <<"Session one", "Session two", "Session three", "Session four">>
Logins == <<"alice", "bob", "carol", "dave">>

Session(i, body, place) ==
  [ number |-> i, title |-> Titles[i], body |-> body,
    labels |-> place.labels, room |-> place.room, slot |-> place.slot,
    author |-> [login |-> Str(Logins[i]), databaseId |-> Num(100 + i)] ]

EventDates == {100}
\* The hours left before the event when validateSession reads the clock.
HoursToEvent == {72, 48, 47, 0 - 48, 0 - 49}

\* The metadata of the project: the date of the event.
Metadata(date) == [date |-> date]

Project(rooms, slots, sessions, date) ==
  [ title |-> "TPAC breakout sessions", rooms |-> rooms, slots |-> slots,
    sessions |-> sessions, metadata |-> Metadata(date) ]

Rooms == fetchProjectRooms(RoomOptions)
Slots == fetchProjectSlots(SlotOptions)

\* The projects of the model.  Either the project is well-formed: the
\* session the tool is started on has any body of the table and sits
\* anywhere (a malformed body: unplaced or in a room and a slot), the other
\* sessions have the plain body and sit anywhere in OtherPlacements, or the
\* tool is started on a number of no session.  Or the project lacks its
\* Room or Slot field.
InitProject ==
  \/ \E b \in BodyNames:
     \E place \in IF b \in MalformedBodies THEN OtherPlacements ELSE Placements:
     \E n \in 1..NumSessions, others \in [1..NumSessions -> OtherPlacements],
        date \in EventDates:
       /\ requested = n
       /\ project = Project(Rooms, Slots,
                            [i \in 1..NumSessions |->
                               IF i = n THEN Session(i, b, place)
                               ELSE Session(i, "plain", others[i])],
                            date)
  \/ \E b \in BodyNames, date \in EventDates:
       /\ requested = NumSessions + 1
       /\ project = Project(Rooms, Slots,
                            [i \in 1..NumSessions |-> Session(i, b, Unplaced)], date)
  \/ \E b \in {"small", "large"}, n \in 1..NumSessions, date \in EventDates:
       /\ requested = n
       /\ project = Project(fetchProjectRooms(NumberedRoomOptions), Slots,
                            [i \in 1..NumSessions |->
                               IF i = n
                               THEN Session(i, b, Place("0", "9:30 - 10:30", <<SessionLabel>>))
                               ELSE Session(i, "plain", Unplaced)],
                            date)
  \/ \E rooms \in {Undefined, Rooms}, slots \in {Undefined, Slots},
        n \in 1..(NumSessions + 1), b \in {"plain", "broken"}, date \in EventDates:
       /\ rooms = Undefined \/ slots = Undefined
       /\ requested = n
       /\ project = Project(rooms, slots,
                            [i \in 1..NumSessions |-> Session(i, b, Unplaced)], date)

\* No tool but validateSession itself.
NoTool == [name |-> "validate"]

Init ==
  /\ InitProject
  /\ description = [i \in 1..NumSessions |-> Undefined]
  /\ chairs = [i \in 1..NumSessions |-> Undefined]
  /\ outcome = NoCall
  /\ previous = NoCall
  /\ tool = NoTool

\* The call reaches the W3C API only for a session whose chairs are not cached.
asksW3C ==
  \E i \in 1..Len(project.sessions):
    project.sessions[i].number = requested /\ needsChairs(chairs[i])

\* One call validateSession(requested, project), the clock reading
\* `now`, not earlier than it last read, and the W3C API answering `w3c`
\* when it is asked.
Validate(now, w3c) ==
  /\ outcome.kind # "none" => now >= outcome.now
  /\ ~asksW3C => w3c = "found"
  /\ \E r \in {validateSession(requested, project, description, chairs, now, w3c)}:
       /\ outcome' = r.outcome
       /\ description' = r.description
       /\ chairs' = r.chairs
  /\ previous' = outcome
  /\ UNCHANGED <<project, requested, tool>>

Next ==
  \E h \in HoursToEvent, w3c \in W3CAnswers:
    Validate(project.metadata.date - h, w3c)

Spec == Init /\ [][Next]_vars

----------------------------------------------------------------------------
(* update-session-labels.mjs: validates a session and reconciles its       *)
(* "check: ", "warning: " and "error: " labels with the report.            *)

\* `${error.severity}: ` (update-session-labels.mjs 113)
SeverityPrefix(severity) ==
  CASE severity = "error" -> "error: "
    [] severity = "warning" -> "warning: "
    [] severity = "check" -> "check: "
    [] OTHER -> "other: "
\* `${error.severity}: ${error.type}`
LabelOf(issue) == Label(SeverityPrefix(issue.severity), issue.type)

\* A filter that takes the track labels as well.
IsSeverityOrTrackLabel(label) ==
  label.prefix \in {"check: ", "warning: ", "error: ", "track: "}
\* update-session-labels.mjs 107-110
IsSeverityLabel(label) == label.prefix \in {"check: ", "warning: ", "error: "}

\* The label names of the model in the order of Array.prototype.sort().
LabelOrder ==
  << Label("", "bug"), Label("check: ", "comments"), Label("check: ", "instructions"),
     Label("error: ", "chair conflict"),
     Label("error: ", "chairs"), Label("error: ", "conflict"),
     Label("error: ", "format"), Label("error: ", "scheduling"),
     Label("", "session"),
     Label("track: ", "media"), Label("track: ", "privacy"),
     Label("warning: ", "agenda"), Label("warning: ", "capacity"),
     Label("warning: ", "conflict"), Label("warning: ", "duration"),
     Label("warning: ", "minutes"), Label("warning: ", "minutes origin"),
     Label("warning: ", "track") >>
\* labels.sort()
SortLabels(labels) == SelectSeq(LabelOrder, LAMBDA l: Includes(labels, l))

\* project.labels: the labels of the repository, with their ids.
CatalogEntry(label) == [name |-> label, id |-> <<"id", label.prefix, label.name>>]
Catalog(labels) == Map(CatalogEntry, labels)
\* project.labels.find(l => l.name === label): the entry or undefined.
findLabel(catalog, label) ==
  IF \E k \in 1..Len(catalog): catalog[k].name = label
  THEN catalog[CHOOSE k \in 1..Len(catalog):
                 catalog[k].name = label /\ \A j \in 1..(k - 1): catalog[j].name # label]
  ELSE Undefined

\* The file given as second argument: none, a file without body.from, or a
\* file whose body.from is a previous version of the body.
NoChangesFile == [given |-> FALSE, from |-> ""]
ChangesWithoutBody == [given |-> TRUE, from |-> ""]
ChangesFrom(body) == [given |-> TRUE, from |-> body]

IsCommentsCheck(issue) == issue.severity = "check" /\ issue.type = "comments"

\* A tool that drops the check when it cannot compare the two versions.
assessCommentsDrop(report, session, changesFile) ==
  IF changesFile.given /\ ~Includes(session.labels, Label("check: ", "comments"))
  THEN SelectSeq(report, LAMBDA issue: ~IsCommentsCheck(issue))
  ELSE report
\* A tool that never looks at the previous version.
assessCommentsKeep(report, session, changesFile) == report
\* update-session-labels.mjs 56-100: the report that is reconciled.
assessComments(report, session, changesFile) ==
  IF /\ \E k \in 1..Len(report): IsCommentsCheck(report[k])
     /\ ~Includes(session.labels, Label("check: ", "comments"))
     /\ changesFile.given
  THEN IF changesFile.from = "" THEN report
       ELSE Const(parseSessionBody(revisionOf(changesFile.from)),
                  LAMBDA previousDescription:
            Const(parseSessionBody(bodyOf(session)),
                  LAMBDA newDescription:
              IF previousDescription.threw \/ newDescription.threw THEN report
              ELSE IF Prop(newDescription.value, "comments")
                        = Prop(previousDescription.value, "comments")
                   THEN SelectSeq(report, LAMBDA issue: ~IsCommentsCheck(issue))
                   ELSE report))
  ELSE report

\* A tool that takes the session to have no severity label.
sessionLabelsOfNone(session) == <<>>
\* update-session-labels.mjs 106-111
sessionLabelsOf(session) == SortLabels(SelectSeq(session.labels, IsSeverityLabel))
\* update-session-labels.mjs 112-114
newLabelsOf(report) == SortLabels(Map(LabelOf, report))
\* A reconciliation that adds every label of the report.
namesToAddAll(sessionLabels, newLabels) == newLabels
\* update-session-labels.mjs 118-119: the names, before the ids
namesToAdd(sessionLabels, newLabels) ==
  SelectSeq(newLabels, LAMBDA label: ~Includes(sessionLabels, label))
\* A reconciliation that leaves the "check: " labels in place.
namesToRemoveButChecks(sessionLabels, newLabels) ==
  SelectSeq(sessionLabels, LAMBDA label:
    label.prefix # "check: " /\ ~Includes(newLabels, label))
\* update-session-labels.mjs 144-145: the names, before the ids
namesToRemove(sessionLabels, newLabels) ==
  SelectSeq(sessionLabels, LAMBDA label:
    label # Label("", "session") /\ ~Includes(newLabels, label))
\* .map(label => project.labels.find(l => l.name === label).id); [threw, value]
labelIds(catalog, names) ==
  IF \E k \in 1..Len(names): findLabel(catalog, names[k]) = Undefined
  THEN ParseThrew
  ELSE Parsed(Map(LAMBDA label: findLabel(catalog, label).id, names))

\* A mutation sent to GitHub: addLabelsToLabelable or removeLabelsFromLabelable.
Mutation(op, ids) == [op |-> op, ids |-> ids]
LabelsRun(fault, report, toAdd, toRemove, sent, labels) ==
  [fault |-> fault, report |-> report, toAdd |-> toAdd, toRemove |-> toRemove,
   sent |-> sent, labels |-> labels]

\* update-session-labels.mjs 144-168: labels are the labels of the session
\* once the labels to add are there.
removeLabels(report, toAdd, sentBefore, labels, sessionLabels, newLabels, catalog, removeOk) ==
  Const(namesToRemove(sessionLabels, newLabels), LAMBDA toRemove:
  Const(labelIds(catalog, toRemove), LAMBDA labelsToRemove:
    IF labelsToRemove.threw
    THEN LabelsRun("TypeError: project.labels.find(...) is undefined",
                   report, toAdd, toRemove, sentBefore, labels)
    ELSE IF Len(labelsToRemove.value) > 0
    THEN IF removeOk
         THEN LabelsRun("", report, toAdd, toRemove,
                        Append(sentBefore, Mutation("remove", labelsToRemove.value)),
                        SelectSeq(labels, LAMBDA l: ~Includes(toRemove, l)))
         ELSE LabelsRun("Error: GraphQL error, could not remove labels",
                        report, toAdd, toRemove,
                        Append(sentBefore, Mutation("remove", labelsToRemove.value)),
                        labels)
    ELSE LabelsRun("", report, toAdd, toRemove, sentBefore, labels)))

\* update-session-labels.mjs 102-168
reconcileLabels(session, report, catalog, addOk, removeOk) ==
  Const(sessionLabelsOf(session), LAMBDA sessionLabels:
  Const(newLabelsOf(report), LAMBDA newLabels:
  Const(namesToAdd(sessionLabels, newLabels), LAMBDA toAdd:
  Const(labelIds(catalog, toAdd), LAMBDA labelsToAdd:
    IF labelsToAdd.threw
    THEN LabelsRun("TypeError: project.labels.find(...) is undefined",
                   report, toAdd, <<>>, <<>>, session.labels)
    ELSE IF Len(labelsToAdd.value) > 0
    THEN IF addOk
         THEN removeLabels(report, toAdd, <<Mutation("add", labelsToAdd.value)>>,
                           session.labels \o toAdd, sessionLabels, newLabels,
                           catalog, removeOk)
         ELSE LabelsRun("Error: GraphQL error, could not add labels",
                        report, toAdd, <<>>, <<Mutation("add", labelsToAdd.value)>>,
                        session.labels)
    ELSE removeLabels(report, toAdd, <<>>, session.labels, sessionLabels, newLabels,
                      catalog, removeOk)))))

\* update-session-labels.mjs 28-170: the run of the tool, and what
\* validateSession did in it.
updateSessionLabels(sessionNumber, changesFile, proj, catalog, descs, chrs, now, w3c, addOk, removeOk) ==
  Const(findSession(proj.sessions, sessionNumber), LAMBDA idx:
    IF idx = 0
    THEN [run |-> LabelsRun("Error: Session not found in project", <<>>, <<>>, <<>>, <<>>, <<>>),
          validated |-> Result(NoCall, descs, chrs)]
    ELSE IF proj.rooms = Undefined \/ proj.slots = Undefined
    THEN [run |-> LabelsRun("TypeError: project.rooms is undefined", <<>>, <<>>, <<>>, <<>>,
                            proj.sessions[idx].labels),
          validated |-> Result(NoCall, descs, chrs)]
    ELSE Const(validateSession(sessionNumber, proj, descs, chrs, now, w3c), LAMBDA r:
      [validated |-> r,
       run |->
         IF r.outcome.kind = "thrown"
         THEN LabelsRun(r.outcome.error, <<>>, <<>>, <<>>, <<>>, proj.sessions[idx].labels)
         ELSE IF \E k \in 1..Len(r.outcome.issues):
                   "messages" \notin DOMAIN r.outcome.issues[k]
         THEN LabelsRun("TypeError: error.messages is undefined", r.outcome.issues,
                        <<>>, <<>>, <<>>, proj.sessions[idx].labels)
         ELSE Const(assessComments(r.outcome.issues, proj.sessions[idx], changesFile),
                    LAMBDA report:
                      reconcileLabels(proj.sessions[idx], report, catalog,
                                      addOk, removeOk))]))

\* The names of the labels that manage-repo-labels.mjs sets up (19-90).
referenceNames ==
  << Label("check: ", "instructions"), Label("error: ", "chair conflict"),
     Label("error: ", "chairs"), Label("error: ", "conflict"),
     Label("error: ", "format"), Label("error: ", "scheduling"),
     Label("", "session"),
     Label("warning: ", "agenda"), Label("warning: ", "capacity"),
     Label("warning: ", "conflict"), Label("warning: ", "duration"),
     Label("warning: ", "minutes"), Label("warning: ", "minutes origin"),
     Label("warning: ", "track") >>

\* The label catalogs of the model: the labels of the repository as
\* manage-repo-labels.mjs leaves them, and with "check: comments" as well.
Catalogs ==
  { Catalog(referenceNames \o <<Privacy, Media>>),
    Catalog(<<Label("check: ", "comments")>> \o referenceNames \o <<Privacy, Media>>) }

ChangesFiles ==
  {NoChangesFile, ChangesWithoutBody} \cup {ChangesFrom(b) : b \in DOMAIN previousBodies}

\* The severity labels that the session carries before the run.
CurrentLabels ==
  { <<>>,
    <<Label("check: ", "comments")>>,
    <<Label("error: ", "format")>>,
    <<Label("error: ", "chairs"), Label("warning: ", "agenda")>>,
    <<Label("check: ", "instructions"), Label("warning: ", "agenda")>> }
LabelBodies == {"plain", "comments", "tbd", "conflict9"}
LabelPlacements == {Unplaced, Place("Room A (15)", "9:30 - 10:30", <<SessionLabel, Privacy>>)}
LabelOtherPlacements == {Unplaced, Place("Room A (15)", "9:30 - 10:30", <<SessionLabel>>)}

NoLabelsRun == LabelsRun("", <<>>, <<>>, <<>>, <<>>, <<>>)
LabelsTool(changesFile, catalog) ==
  [name |-> "labels", changesFile |-> changesFile, catalog |-> catalog,
   ran |-> FALSE, run |-> NoLabelsRun]

InitLabels ==
  /\ \E b \in LabelBodies, place \in LabelPlacements, current \in CurrentLabels,
        others \in [2..NumSessions -> LabelOtherPlacements], date \in EventDates,
        n \in {1, NumSessions + 1}:
       /\ requested = n
       /\ project = Project(Rooms, Slots,
                            [i \in 1..NumSessions |->
                               IF i = 1
                               THEN Session(i, b, Place(place.room, place.slot,
                                                        place.labels \o current))
                               ELSE Session(i, "plain", others[i])],
                            date)
  /\ \E changesFile \in ChangesFiles, catalog \in Catalogs:
       tool = LabelsTool(changesFile, catalog)
  /\ description = [i \in 1..NumSessions |-> Undefined]
  /\ chairs = [i \in 1..NumSessions |-> Undefined]
  /\ outcome = NoCall
  /\ previous = NoCall

\* One run of update-session-labels.mjs on the session `requested`.
UpdateSessionLabels(now, w3c, addOk, removeOk) ==
  /\ ~tool.ran
  /\ \E u \in {updateSessionLabels(requested, tool.changesFile, project, tool.catalog,
                                   description, chairs, now, w3c, addOk, removeOk)}:
       /\ tool' = [tool EXCEPT !.ran = TRUE, !.run = u.run]
       /\ outcome' = u.validated.outcome
       /\ description' = u.validated.description
       /\ chairs' = u.validated.chairs
  /\ previous' = outcome
  /\ UNCHANGED <<project, requested>>

NextLabels ==
  \E h \in HoursToEvent, w3c \in W3CAnswers, addOk \in BOOLEAN, removeOk \in BOOLEAN:
    UpdateSessionLabels(project.metadata.date - h, w3c, addOk, removeOk)

SpecLabels == InitLabels /\ [][NextLabels]_vars

----------------------------------------------------------------------------
(* Vocabulary of the properties.                                           *)

Called == outcome.kind # "none"
HasReturned == outcome.kind = "returned"
HasThrown == outcome.kind = "thrown"
ValidProject == validateProject(project) = <<>>
KnownSession == \E i \in 1..Len(project.sessions): project.sessions[i].number = requested
\* The session the tool was started on, when it is known.
TargetIdx == CHOOSE i \in 1..Len(project.sessions): project.sessions[i].number = requested
Target == project.sessions[TargetIdx]
Others == {i \in 1..Len(project.sessions): i # TargetIdx}
WellFormed == validateSessionBody(bodyOf(Target)) = <<>>
\* A valid project, a session of it with a body that passes the format check.
Validated == Called /\ ValidProject /\ KnownSession /\ WellFormed

IssuesOfType(o, severity, type) ==
  SelectSeq(o.issues, LAMBDA issue: issue.severity = severity /\ issue.type = type)
HasIssue(o, severity, type) == IssuesOfType(o, severity, type) # <<>>
\* Some message of some issue of that type names that session.
Names(o, severity, type, other) ==
  \E k \in 1..Len(o.issues):
    /\ o.issues[k].severity = severity /\ o.issues[k].type = type
    /\ \E m \in 1..Len(o.issues[k].messages):
         /\ o.issues[k].messages[m].title = other.title
         /\ o.issues[k].messages[m].number = other.number
Uncached(i) == description[i] = Undefined /\ chairs[i] = Undefined

\* The numbers listed in the "Scheduling conflicts" section of the body.
DeclaredConflicts ==
  LET blocks == SelectSeq(bodyOf(Target), LAMBDA b:
                  b.heading = "Scheduling conflicts (Optional)" /\ b.content.t = "tokens")
  IN  IF blocks = <<>> THEN <<>>
      ELSE Map(LAMBDA tok: ParseInt(tok.rest), blocks[Len(blocks)].content.v)
\* The capacity asked for in the "Room capacity" section of the body.
RequestedCapacity ==
  LET blocks == SelectSeq(bodyOf(Target), LAMBDA b: b.heading = "Room capacity")
      option == blocks[Len(blocks)].content.v
  IN  CASE option = "Small (fewer than 20 people)" -> 15
        [] option = "Large (20-45 people)" -> 30
        [] option = "Really quite large (more than 45 people)" -> 50
        [] OTHER -> 0
\* The capacity of the room of that name.
CapacityOfRoom(name) ==
  LET k == CHOOSE j \in 1..Len(project.rooms.v): project.rooms.v[j].name = name
  IN  project.rooms.v[k].capacity
\* The value of the "- Agenda:" line of the body, "" when there is none.
AgendaInBody ==
  LET blocks == SelectSeq(bodyOf(Target), LAMBDA b:
                  b.heading = "Meeting materials" /\ b.content.t = "lines")
      lines == IF blocks = <<>> THEN <<>>
               ELSE SelectSeq(blocks[Len(blocks)].content.v,
                              LAMBDA l: l.bullet /\ l.kind = "Agenda")
  IN  IF lines = <<>> THEN "" ELSE lines[Len(lines)].val
HasMaterialsSection ==
  \E k \in 1..Len(bodyOf(Target)): bodyOf(Target)[k].heading = "Meeting materials"

----------------------------------------------------------------------------
(* C1: for a valid project and a session number of it, validateSession     *)
(* returns a list of issues and never throws.                              *)
C1_NeverThrows ==
  (Called /\ ValidProject /\ KnownSession) => HasReturned

(* C2: when the project is structurally invalid or the session number is   *)
(* of no session, every call of validateSession throws, and no session's   *)
(* description or chairs is ever written.                                  *)
C2_FaultsWriteNothing ==
  (~ValidProject \/ ~KnownSession) =>
     /\ Called => /\ HasThrown
                  /\ outcome.error = IF ~ValidProject THEN "Error: Project is invalid"
                                     ELSE "Error: Session is not in project"
     /\ \A i \in 1..Len(project.sessions): Uncached(i)
C2_Witness ==
  /\ HasThrown /\ previous.kind = "thrown"
  /\ ValidProject /\ ~KnownSession
  /\ outcome.error = "Error: Session is not in project"

(* C3: a body that fails the format check yields exactly one issue,        *)
(* error:format, whose messages are all the format problems of the body;   *)
(* a result with error:format has no other issue, and the description and  *)
(* chairs of the session stay uncached.                                    *)
C3_FormatOnly ==
  (Called /\ ValidProject /\ KnownSession) =>
     /\ ~WellFormed =>
          /\ HasReturned
          /\ outcome.issues = <<Issue(requested, "error", "format",
                                      validateSessionBody(bodyOf(Target)))>>
     /\ (HasReturned /\ HasIssue(outcome, "error", "format")) =>
          /\ Len(outcome.issues) = 1
          /\ Uncached(TargetIdx)
C3_Witness ==
  /\ HasReturned /\ previous.kind = "returned"
  /\ HasIssue(outcome, "error", "format")
  /\ Len(outcome.issues[1].messages) >= 2
  /\ isScheduled(Target)

(* C4: a body without the required "Meeting materials" section gets        *)
(* exactly one message from validateSessionBody and exactly one issue,     *)
(* error:format, from validateSession.                                     *)
C4_MissingMaterials ==
  (Called /\ ValidProject /\ KnownSession /\ ~HasMaterialsSection) =>
     /\ Len(validateSessionBody(bodyOf(Target))) = 1
     /\ HasReturned
     /\ Len(outcome.issues) = 1
     /\ HasIssue(outcome, "error", "format")

(* C5: a session in the same room and the same slot as another session     *)
(* gets an error:scheduling issue with a message naming that session, and  *)
(* a session that shares its room and slot with no session gets none.      *)
Collides(i) ==
  /\ isScheduled(Target)
  /\ project.sessions[i].room = Target.room
  /\ project.sessions[i].slot = Target.slot
C5_Scheduling ==
  Validated =>
     /\ \A i \in Others:
          Collides(i) => HasReturned /\ Names(outcome, "error", "scheduling", project.sessions[i])
     /\ (HasReturned /\ \A i \in Others: ~Collides(i)) =>
          ~HasIssue(outcome, "error", "scheduling")

(* C6: a session whose declared conflicts contain its own number or the    *)
(* number of no session gets one error:conflict issue with one message    *)
(* per such number and no warning:conflict; no result has both.            *)
Offending(n) == n = requested \/ \A i \in 1..Len(project.sessions): project.sessions[i].number # n
OffendingConflicts == SelectSeq(DeclaredConflicts, Offending)
C6_ConflictErrors ==
  Validated =>
     /\ OffendingConflicts # <<>> =>
          /\ HasReturned
          /\ Len(IssuesOfType(outcome, "error", "conflict")) = 1
          /\ Len(IssuesOfType(outcome, "error", "conflict")[1].messages)
               = Len(OffendingConflicts)
          /\ \A k \in 1..Len(OffendingConflicts):
               OffendingConflicts[k] # requested =>
                 \E m \in 1..Len(OffendingConflicts):
                   IssuesOfType(outcome, "error", "conflict")[1].messages[m].number
                     = OffendingConflicts[k]
          /\ ~HasIssue(outcome, "warning", "conflict")
     /\ HasReturned => ~(HasIssue(outcome, "error", "conflict")
                      /\ HasIssue(outcome, "warning", "conflict"))

(* C7: warning:capacity is emitted iff a room is assigned, the requested   *)
(* capacity is above 0 and the capacity of the room is below it.           *)
CapacityShort ==
  /\ Target.room # ""
  /\ RequestedCapacity > 0
  /\ CapacityOfRoom(Target.room) < RequestedCapacity
C7_Capacity ==
  Validated =>
     /\ CapacityShort => HasReturned /\ HasIssue(outcome, "warning", "capacity")
     /\ (HasReturned /\ HasIssue(outcome, "warning", "capacity")) => CapacityShort

(* C8: a session that shares a track label and its slot, not its room,     *)
(* with another session gets a warning:track issue naming that session     *)
(* and no error:scheduling.                                                *)
SharesTrack(i) ==
  \E a \in 1..Len(Target.labels):
    /\ StartsWith(Target.labels[a], "track: ")
    /\ Includes(project.sessions[i].labels, Target.labels[a])
C8_Tracks ==
  (Validated /\ Target.body = "plain") =>
     \A i \in Others:
       ( /\ SharesTrack(i)
         /\ Target.slot # "" /\ project.sessions[i].slot = Target.slot
         /\ project.sessions[i].room # Target.room
         /\ \A j \in Others: ~Collides(j) ) =>
       /\ HasReturned
       /\ Names(outcome, "warning", "track", project.sessions[i])
       /\ ~HasIssue(outcome, "error", "scheduling")

(* C9: for a scheduled session, warning:agenda is emitted iff the agenda   *)
(* of the body is absent or a placeholder and the event is less than 48    *)
(* hours after the clock reading.                                          *)
AgendaAbsentOrPlaceholder ==
  AgendaInBody = "" \/ ToUpperCase(AgendaInBody) \in MissingSentinels
C9_Agenda ==
  (Validated /\ HasReturned /\ isScheduled(Target)) =>
     (HasIssue(outcome, "warning", "agenda")
        <=> (AgendaAbsentOrPlaceholder
             /\ project.metadata.date - outcome.now < twoDaysInHours))

(* C10 as stated: two calls in a row on the same session of an unchanged   *)
(* project return identical lists of issues.                               *)
C10_Idempotent ==
  (previous.kind = "returned" /\ HasReturned) => outcome.issues = previous.issues

(* C10, amended: two calls in a row on the same session of an unchanged    *)
(* project that read the same time and both return, return identical       *)
(* lists of issues, the second from the cached description and chairs.     *)
C10_IdempotentSameClock ==
  (previous.kind = "returned" /\ HasReturned /\ outcome.now = previous.now) =>
     outcome.issues = previous.issues
C10_Witness ==
  /\ previous.kind = "returned" /\ HasReturned /\ outcome.now = previous.now
  /\ KnownSession /\ ~Uncached(TargetIdx)
  /\ HasIssue(outcome, "error", "chairs")
  /\ HasIssue(outcome, "warning", "agenda")

----------------------------------------------------------------------------
(* Runs of update-session-labels.mjs in a row on session 1, the job being  *)
(* started by the events of the issue: opened (no changes file), edited    *)
(* (a changes file with the previous body); a run may be started again on  *)
(* the same event.  The labels that GitHub took are on the session when    *)
(* the next run fetches the project.                                       *)

MaxRuns == 3
MaxEdits == 2
RunBodies == {"plain", "comments", "muddled"}
RunLabels == {<<>>, <<Label("error: ", "format")>>, <<Label("check: ", "instructions")>>}
RunHours == {72, 47}

RunsTool(catalog, now, w3c) ==
  [name |-> "runs", catalog |-> catalog, now |-> now, w3c |-> w3c,
   changesFile |-> NoChangesFile, ran |-> FALSE, runs |-> 0, edits |-> 0,
   replay |-> FALSE, run |-> NoLabelsRun, last |-> NoLabelsRun]

InitRuns ==
  /\ \E b \in RunBodies, place \in LabelPlacements, current \in RunLabels,
        date \in EventDates:
       project = Project(Rooms, Slots,
                         [i \in 1..NumSessions |->
                            IF i = 1
                            THEN Session(i, b, Place(place.room, place.slot,
                                                     place.labels \o current))
                            ELSE Session(i, "plain", Unplaced)],
                         date)
  /\ \E catalog \in Catalogs, h \in RunHours, w3c \in W3CAnswers:
       tool = RunsTool(catalog, project.metadata.date - h, w3c)
  /\ requested = 1
  /\ description = [i \in 1..NumSessions |-> Undefined]
  /\ chairs = [i \in 1..NumSessions |-> Undefined]
  /\ outcome = NoCall
  /\ previous = NoCall

\* The author edits the body of the issue: the event carries the previous
\* body as changes.body.from.
EditBody(b) ==
  /\ tool.ran /\ tool.edits < MaxEdits
  /\ b # project.sessions[1].body
  /\ project' = [project EXCEPT !.sessions[1].body = b]
  /\ tool' = [tool EXCEPT !.changesFile = ChangesFrom(project.sessions[1].body),
                          !.ran = FALSE, !.edits = @ + 1]
  /\ UNCHANGED <<requested, description, chairs, outcome, previous>>

\* One run of the job on the current event (a run again when tool.ran).
RunSessionLabels(addOk, removeOk) ==
  /\ tool.runs < MaxRuns
  /\ \E u \in {updateSessionLabels(requested, tool.changesFile, project, tool.catalog,
                                   [i \in 1..NumSessions |-> Undefined],
                                   [i \in 1..NumSessions |-> Undefined],
                                   tool.now, tool.w3c, addOk, removeOk)}:
       /\ tool' = [tool EXCEPT !.ran = TRUE, !.runs = @ + 1, !.replay = tool.ran,
                               !.run = u.run, !.last = tool.run]
       /\ project' = [project EXCEPT !.sessions[1].labels = u.run.labels]
       /\ outcome' = u.validated.outcome
       /\ description' = u.validated.description
       /\ chairs' = u.validated.chairs
  /\ previous' = outcome
  /\ UNCHANGED requested

NextRuns ==
  \/ \E b \in RunBodies: EditBody(b)
  \/ \E addOk \in BOOLEAN, removeOk \in BOOLEAN: RunSessionLabels(addOk, removeOk)

SpecRuns == InitRuns /\ [][NextRuns]_vars

----------------------------------------------------------------------------
(* lib/w3caccount.mjs: the cache of W3C accounts and the calls of          *)
(* fetchW3CAccount of one run, each of them suspended at its awaits.  The  *)
(* file declares the function twice; `version` says which one runs.        *)

MaxCalls == 3
AccountIds == {1, 2}
AccountVersions == {"keyed", "positional"}

\* The account that the W3C API returns for a GitHub databaseId.
W3CUser(databaseId) == Obj([githubId |-> databaseId, w3cId |-> databaseId + 1000])

NoAccountCall == [pc |-> "idle", id |-> 0, w3cHash |-> FALSE, user |-> Undefined]

AccountsTool(version, linked) ==
  [ name |-> "accounts", version |-> version, linked |-> linked,
    cache |-> [id \in AccountIds |-> Undefined],
    requests |-> [id \in AccountIds |-> 0],
    calls |-> [c \in 1..MaxCalls |-> NoAccountCall] ]

InitAccounts ==
  /\ \E version \in AccountVersions, linked \in [AccountIds -> BOOLEAN]:
       tool = AccountsTool(version, linked)
  /\ requested = 1
  /\ project = Project(Rooms, Slots, [i \in 1..NumSessions |-> Session(i, "plain", Unplaced)],
                       100)
  /\ description = [i \in 1..NumSessions |-> Undefined]
  /\ chairs = [i \in 1..NumSessions |-> Undefined]
  /\ outcome = NoCall
  /\ previous = NoCall

\* A call of fetchW3CAccount up to its first await: it returns a copy of the
\* cached account, or goes on to read the API key.
FetchW3CAccount(c, id, w3cHash) ==
  /\ tool.calls[c].pc = "idle"
  /\ w3cHash => tool.version = "keyed"
  /\ tool' = [tool EXCEPT !.calls[c] =
                IF Truthy(tool.cache[id])
                THEN [pc |-> "returned", id |-> id, w3cHash |-> w3cHash, user |-> tool.cache[id]]
                ELSE [pc |-> "key", id |-> id, w3cHash |-> w3cHash, user |-> Undefined]]
  /\ UNCHANGED <<project, requested, description, chairs, outcome, previous>>

\* The call has the API key and sends its request for the databaseId.
SendRequest(c) ==
  /\ tool.calls[c].pc \in {"key", "key again"}
  /\ tool' = [tool EXCEPT !.requests[tool.calls[c].id] = @ + 1,
                          !.calls[c].pc = IF @ = "key" THEN "fetch" ELSE "fetch again"]
  /\ UNCHANGED <<project, requested, description, chairs, outcome, previous>>

\* The end of a call that got `user` from the API.
storeAccount(c, user) ==
  [tool EXCEPT !.cache[tool.calls[c].id] =
                 IF tool.version = "positional" /\ user = Undefined THEN @ ELSE user,
               !.calls[c].pc = "returned",
               !.calls[c].user = IF tool.version = "positional" /\ user = Undefined
                                 THEN Null ELSE user]

\* The answer of the W3C API to the request of a call.
Response(c, status) ==
  /\ tool.calls[c].pc \in {"fetch", "fetch again"}
  /\ status \in IF tool.linked[tool.calls[c].id] THEN {200, 500} ELSE {404, 500}
  /\ tool' = IF status = 500 THEN [tool EXCEPT !.calls[c].pc = "threw"]
             ELSE IF status = 200 THEN storeAccount(c, W3CUser(tool.calls[c].id))
             ELSE IF tool.calls[c].pc = "fetch" /\ tool.calls[c].w3cHash
                  THEN [tool EXCEPT !.calls[c].pc = "key again"]
                  ELSE storeAccount(c, Undefined)
  /\ UNCHANGED <<project, requested, description, chairs, outcome, previous>>

NextAccounts ==
  \/ \E c \in 1..MaxCalls, id \in AccountIds, w3cHash \in BOOLEAN: FetchW3CAccount(c, id, w3cHash)
  \/ \E c \in 1..MaxCalls: SendRequest(c)
  \/ \E c \in 1..MaxCalls, status \in {200, 404, 500}: Response(c, status)

SpecAccounts == InitAccounts /\ [][NextAccounts]_vars

----------------------------------------------------------------------------
(* manage-repo-labels.mjs: the labels of the repository are aligned on the *)
(* reference list of the tool.                                             *)

\* manage-repo-labels.mjs 19-90: the colour and the description of a
\* reference label.
referenceColor(label) ==
  CASE label.prefix = "check: " -> "1D76DB"
    [] label.prefix = "error: " -> "B60205"
    [] label.prefix = "warning: " -> "FBCA04"
    [] OTHER -> "C2E0C6"
referenceDescription(label) ==
  CASE label = Label("check: ", "instructions") ->
         "Proposal has instructions for meeting planners. Remove label once they have been checked."
    [] label = Label("error: ", "chair conflict") ->
         "Session scheduled at the same time as another session with an overlapping chair"
    [] label = Label("error: ", "chairs") -> "Cannot retrieve the W3C account of a session chair"
    [] label = Label("error: ", "conflict") -> "Conflicting issue is not a breakout session proposal"
    [] label = Label("error: ", "format") ->
         "Issue cannot be parsed by automatic job due to some formatting issue"
    [] label = Label("error: ", "scheduling") ->
         "Session scheduled in same room and at the same time as another session"
    [] label = Label("", "session") -> "Breakout session proposal"
    [] label = Label("warning: ", "agenda") ->
         "No agenda link whereas session is around the corner (or past already)"
    [] label = Label("warning: ", "capacity") -> "Session room is smaller than requested capacity"
    [] label = Label("warning: ", "conflict") ->
         "Session scheduled at the same time as another session identified as conflicting"
    [] label = Label("warning: ", "duration") ->
         "Session scheduled during a 30mn slot but 60mn was preferred"
    [] label = Label("warning: ", "minutes") -> "No link to the minutes whereas session is past"
    [] label = Label("warning: ", "minutes origin") -> "Minutes are not stored on www.w3.org"
    [] label = Label("warning: ", "track") ->
         "Session scheduled at the same time as another session in the same track"
    [] OTHER -> ""

\* A label of the repository, or of the reference list (which has no id).
RepoLabel(name, text, color) ==
  [id |-> <<"id", name.prefix, name.name>>, name |-> name,
   description |-> text, color |-> color]
referenceLabels ==
  Map(LAMBDA name: RepoLabel(name, referenceDescription(name), referenceColor(name)),
      referenceNames)
\* labels.find(l => l.name === label.name), the label being in the list
findReference(name) ==
  referenceLabels[CHOOSE k \in 1..Len(referenceLabels): referenceLabels[k].name = name]

\* A mutation request: createLabel, deleteLabel or updateLabel, with the
\* values that the request carries.
Request(op, id, name, color, text) ==
  [op |-> op, id |-> id, name |-> name, color |-> color, description |-> text]

\* manage-repo-labels.mjs 118-141
createRequests(repositoryLabels) ==
  Map(LAMBDA label: Request("create", label.id, label.name, label.color, label.description),
      SelectSeq(referenceLabels, LAMBDA label:
        ~\E k \in 1..Len(repositoryLabels): repositoryLabels[k].name = label.name))
\* manage-repo-labels.mjs 146-164
deleteRequests(repositoryLabels) ==
  Map(LAMBDA label: Request("delete", label.id, label.name, "", ""),
      SelectSeq(repositoryLabels, LAMBDA label:
        /\ ~Includes(referenceNames, label.name)
        /\ label.name.prefix # "track: "))
\* manage-repo-labels.mjs 169-195: the request carries the colour and the
\* description of the label of the repository.
updateRequests(repositoryLabels) ==
  Map(LAMBDA label: Request("update", label.id, label.name, label.color, label.description),
      SelectSeq(repositoryLabels, LAMBDA label:
        /\ Includes(referenceNames, label.name)
        /\ \/ findReference(label.name).description # label.description
           \/ findReference(label.name).color # label.color))

\* What GitHub does with an accepted request.
applyRequest(repositoryLabels, request) ==
  CASE request.op = "create" ->
         Append(repositoryLabels,
                RepoLabel(request.name, request.description, request.color))
    [] request.op = "delete" ->
         SelectSeq(repositoryLabels, LAMBDA label: label.id # request.id)
    [] OTHER ->
         Map(LAMBDA label:
               IF label.id = request.id
               THEN RepoLabel(request.name, request.description, request.color)
               ELSE label,
             repositoryLabels)
RECURSIVE applyRequests(_, _)
applyRequests(repositoryLabels, requests) ==
  IF requests = <<>> THEN repositoryLabels
  ELSE applyRequests(applyRequest(repositoryLabels, Head(requests)), Tail(requests))

\* The request of that position is rejected; 0 when GitHub accepts them all.
MaxRejected == 3
RepoRun(fault, sent, labels) == [fault |-> fault, sent |-> sent, labels |-> labels]
\* manage-repo-labels.mjs 92-197; res.data.repository.labels.nodes sorted by name
createRepoLabels(nodes, rejected) ==
  Const(SelectSeq(Map(LAMBDA name: SelectSeq(nodes, LAMBDA l: l.name = name), LabelOrder),
                  LAMBDA found: found # <<>>),
        LAMBDA sorted:
  Const(Map(LAMBDA found: found[1], sorted), LAMBDA repositoryLabels:
  Const(createRequests(repositoryLabels) \o deleteRequests(repositoryLabels)
          \o updateRequests(repositoryLabels),
        LAMBDA requests:
    IF rejected \in 1..Len(requests)
    THEN RepoRun("Error: GraphQL error, could not " \o requests[rejected].op \o " label",
                 SubSeq(requests, 1, rejected),
                 applyRequests(repositoryLabels, SubSeq(requests, 1, rejected - 1)))
    ELSE RepoRun("", requests, applyRequests(repositoryLabels, requests)))))

\* The labels that the repository may have when the tool starts: a
\* reference label as it should be, with another colour or with another
\* description, a track label, and labels that the tool does not know.
RepoVariants == {"absent", "reference", "changed"}
RepositoryLabels(session, format, rest, track, bug, comments) ==
  (IF session = "absent" THEN <<>>
   ELSE << RepoLabel(Label("", "session"), referenceDescription(Label("", "session")),
                     IF session = "changed" THEN "EDEDED" ELSE "C2E0C6") >>)
  \o (IF format = "absent" THEN <<>>
      ELSE << RepoLabel(Label("error: ", "format"),
                        IF format = "changed" THEN "Format issue"
                        ELSE referenceDescription(Label("error: ", "format")),
                        "B60205") >>)
  \o (IF rest
      THEN SelectSeq(referenceLabels, LAMBDA l:
             l.name \notin {Label("", "session"), Label("error: ", "format")})
      ELSE <<>>)
  \o (IF track THEN <<RepoLabel(Privacy, "Privacy track", "0E8A16")>> ELSE <<>>)
  \o (IF bug THEN <<RepoLabel(Label("", "bug"), "Something isn't working", "D73A4A")>> ELSE <<>>)
  \o (IF comments
      THEN <<RepoLabel(Label("check: ", "comments"), "Proposal has comments", "1D76DB")>>
      ELSE <<>>)

RepoTool(nodes) ==
  [name |-> "repository", before |-> nodes, ran |-> FALSE, run |-> RepoRun("", <<>>, nodes)]

InitRepoLabels ==
  /\ \E session \in RepoVariants, format \in RepoVariants, rest \in BOOLEAN,
        track \in BOOLEAN, bug \in BOOLEAN, comments \in BOOLEAN:
       tool = RepoTool(RepositoryLabels(session, format, rest, track, bug, comments))
  /\ requested = 1
  /\ project = Project(Rooms, Slots, [i \in 1..NumSessions |-> Session(i, "plain", Unplaced)],
                       100)
  /\ description = [i \in 1..NumSessions |-> Undefined]
  /\ chairs = [i \in 1..NumSessions |-> Undefined]
  /\ outcome = NoCall
  /\ previous = NoCall

\* One run of manage-repo-labels.mjs.
CreateRepoLabels(rejected) ==
  /\ ~tool.ran
  /\ \E r \in {createRepoLabels(tool.before, rejected)}:
       tool' = [tool EXCEPT !.ran = TRUE, !.run = r]
  /\ UNCHANGED <<project, requested, description, chairs, outcome, previous>>

NextRepoLabels == \E rejected \in 0..MaxRejected: CreateRepoLabels(rejected)

SpecRepoLabels == InitRepoLabels /\ [][NextRepoLabels]_vars

----------------------------------------------------------------------------
(* The tools that act on validated sessions: update-calendar.mjs with      *)
(* lib/calendar.mjs, drive-calendar.mjs, and the two programs of           *)
(* setup-irc.mjs (the IRC bot of lines 36-170, the calendar tool of lines  *)
(* 294-350).                                                               *)

\* .filter(error => error.severity === 'error') is not empty
HasErrors(o) == \E k \in 1..Len(o.issues): o.issues[k].severity = "error"

\* A run: the fault it ended on, the numbers given to validateSession, the
\* sessions whose calendar entry was filled or whose channel was joined,
\* and what validateSession did last.
DownRun(fault, checked, acted, validated) ==
  [fault |-> fault, checked |-> checked, acted |-> acted, validated |-> validated]

\* session.description.materials.calendar of a session that passed
fillEntry(fault, sessionNumber, idx, checked, r) ==
  IF r.description[idx] = Undefined
  THEN DownRun("TypeError: session.description is undefined", checked, <<>>, r)
  ELSE IF ~Truthy(Prop(r.description[idx], "materials"))
  THEN DownRun("TypeError: session.description.materials is undefined", checked, <<>>, r)
  ELSE DownRun(fault, checked, <<sessionNumber>>, r)

\* A calendar tool that validates the session of number `checked`, then
\* fills the entry of the session of number sessionNumber.
calendarMain(sessionNumber, checked, needsSlot, fault, proj, descs, chrs, now, w3c) ==
  Const(findSession(proj.sessions, sessionNumber), LAMBDA idx:
    IF idx = 0
    THEN DownRun("Error: Session not found in project", <<>>, <<>>,
                 Result(NoCall, descs, chrs))
    ELSE Const(validateSession(checked, proj, descs, chrs, now, w3c), LAMBDA r:
      IF r.outcome.kind = "thrown"
      THEN DownRun(r.outcome.error, <<checked>>, <<>>, r)
      ELSE IF HasErrors(r.outcome)
      THEN DownRun("Error: Session contains errors that need fixing", <<checked>>, <<>>, r)
      ELSE IF needsSlot /\ proj.sessions[idx].slot = ""
      THEN DownRun("", <<checked>>, <<>>, r)
      ELSE fillEntry(fault, sessionNumber, idx, <<checked>>, r)))

\* update-calendar.mjs 7-43 and calendar.mjs 202-251
convertSessionToCalendarEntry(sessionNumber, proj, descs, chrs, now, w3c) ==
  calendarMain(sessionNumber, sessionNumber, TRUE, "", proj, descs, chrs, now, w3c)
\* drive-calendar.mjs 140-200: line 186 reads `url`, which main does not have
driveCalendar(sessionNumber, proj, descs, chrs, now, w3c) ==
  calendarMain(sessionNumber, sessionNumber, FALSE, "ReferenceError: url is not defined",
               proj, descs, chrs, now, w3c)
\* setup-irc.mjs 294-330: validateSession(15, project)
setupIrcCalendar(sessionNumber, proj, descs, chrs, now, w3c) ==
  calendarMain(sessionNumber, 15, FALSE, "", proj, descs, chrs, now, w3c)

\* setup-irc.mjs 60-68: Promise.all of the validations; run.acted holds the
\* sessions without error, run.fault the first rejection.
RECURSIVE validateEach(_, _, _, _, _)
validateEach(numbers, proj, run, now, w3c) ==
  IF numbers = <<>> THEN run
  ELSE Const(validateSession(Head(numbers), proj, run.validated.description,
                             run.validated.chairs, now, w3c),
             LAMBDA r:
         validateEach(Tail(numbers), proj,
           DownRun(IF run.fault = "" /\ r.outcome.kind = "thrown"
                   THEN r.outcome.error ELSE run.fault,
                   Append(run.checked, Head(numbers)),
                   IF r.outcome.kind = "returned" /\ ~HasErrors(r.outcome)
                   THEN Append(run.acted, Head(numbers)) ELSE run.acted,
                   r),
           now, w3c))

\* setup-irc.mjs 36-118: number 0 stands for "all"; the sessions are those
\* of the project in the order of their numbers.
setupIrc(number, proj, descs, chrs, now, w3c) ==
  Const(SelectSeq(proj.sessions, LAMBDA session:
          session.slot # "" /\ (number = 0 \/ session.number = number)),
        LAMBDA sessions:
    IF number # 0 /\ sessions = <<>>
    THEN DownRun("Error: Session not found in project", <<>>, <<>>,
                 Result(NoCall, descs, chrs))
    ELSE Const(validateEach(Map(LAMBDA session: session.number, sessions), proj,
                            DownRun("", <<>>, <<>>, Result(NoCall, descs, chrs)),
                            now, w3c),
               LAMBDA run:
           IF run.fault # ""
           THEN DownRun(run.fault, run.checked, <<>>, run.validated)
           ELSE IF number # 0 /\ run.acted = <<>>
           THEN DownRun("Error: Session contains errors that need fixing",
                        run.checked, <<>>, run.validated)
           ELSE run))

DownstreamTools == {"update-calendar", "drive-calendar", "setup-irc", "setup-irc calendar"}
DownstreamBodies == {"plain", "broken", "conflict9"}
DownstreamPlacements == {Unplaced, Place("Room A (15)", "9:30 - 10:30", <<SessionLabel>>)}
DownstreamOtherPlacements ==
  {Unplaced, Place("Room B (30)", "11:00 - 12:00", <<SessionLabel>>)}
DownstreamTool(name) ==
  [name |-> name, ran |-> FALSE, now |-> 0, w3c |-> "found",
   run |-> DownRun("", <<>>, <<>>, Result(NoCall, <<>>, <<>>))]

\* The last session of the project has its own number or number 15.
InitDownstream ==
  /\ \E b \in DownstreamBodies, place \in DownstreamPlacements,
        others \in [2..NumSessions -> DownstreamOtherPlacements],
        last \in {NumSessions, 15}, date \in EventDates:
       project = Project(Rooms, Slots,
                         [i \in 1..NumSessions |->
                            IF i = 1 THEN Session(i, b, place)
                            ELSE [Session(i, "plain", others[i]) EXCEPT
                                    !.number = IF i = NumSessions THEN last ELSE i]],
                         date)
  /\ requested \in {0, 1, NumSessions, 15}
  /\ \E name \in DownstreamTools: tool = DownstreamTool(name)
  /\ description = [i \in 1..NumSessions |-> Undefined]
  /\ chairs = [i \in 1..NumSessions |-> Undefined]
  /\ outcome = NoCall
  /\ previous = NoCall

\* The state after a run of one of the tools.
Ran(run, now, w3c) ==
  /\ tool' = [tool EXCEPT !.ran = TRUE, !.run = run, !.now = now, !.w3c = w3c]
  /\ outcome' = run.validated.outcome
  /\ description' = run.validated.description
  /\ chairs' = run.validated.chairs
  /\ previous' = outcome
  /\ UNCHANGED <<project, requested>>

UpdateCalendar(now, w3c) ==
  /\ tool.name = "update-calendar" /\ ~tool.ran
  /\ \E run \in {convertSessionToCalendarEntry(requested, project, description, chairs,
                                               now, w3c)}:
       Ran(run, now, w3c)
DriveCalendar(now, w3c) ==
  /\ tool.name = "drive-calendar" /\ ~tool.ran
  /\ \E run \in {driveCalendar(requested, project, description, chairs, now, w3c)}:
       Ran(run, now, w3c)
SetupIrc(now, w3c) ==
  /\ tool.name = "setup-irc" /\ ~tool.ran
  /\ \E run \in {setupIrc(requested, project, description, chairs, now, w3c)}:
       Ran(run, now, w3c)
SetupIrcCalendar(now, w3c) ==
  /\ tool.name = "setup-irc calendar" /\ ~tool.ran
  /\ \E run \in {setupIrcCalendar(requested, project, description, chairs, now, w3c)}:
       Ran(run, now, w3c)

NextDownstream ==
  \E h \in HoursToEvent, w3c \in W3CAnswers:
    \/ UpdateCalendar(project.metadata.date - h, w3c)
    \/ DriveCalendar(project.metadata.date - h, w3c)
    \/ SetupIrc(project.metadata.date - h, w3c)
    \/ SetupIrcCalendar(project.metadata.date - h, w3c)

SpecDownstream == InitDownstream /\ [][NextDownstream]_vars

----------------------------------------------------------------------------
(* setup-irc.mjs 60-68: the validations of the selected sessions, started  *)
(* one after the other by Promise.all and suspended at their awaits, which *)
(* complete in any order.  The call for session n is calls[n].             *)

FanOutBodies == {"plain", "tbd"}
FanOutPlacements ==
  { Unplaced, Place("Room A (15)", "9:30 - 10:30", <<SessionLabel>>),
    Place("Room B (30)", "11:00 - 12:00", <<SessionLabel>>) }

FanOutCall(pc, idx, kept) == [pc |-> pc, idx |-> idx, kept |-> kept]

\* setup-irc.mjs 43-44: the sessions that have a slot
FanOutTool(sessions, now) ==
  [ name |-> "fanout", now |-> now,
    calls |-> [n \in 1..NumSessions |->
                 FanOutCall(IF sessions[n].slot # "" THEN "selected" ELSE "unselected",
                            0, FALSE)] ]

InitFanOut ==
  /\ \E bodies \in [1..NumSessions -> FanOutBodies],
        places \in [1..NumSessions -> FanOutPlacements], date \in EventDates:
       /\ project = Project(Rooms, Slots,
                            [i \in 1..NumSessions |-> Session(i, bodies[i], places[i])],
                            date)
       /\ tool = FanOutTool(project.sessions, date - 72)
  /\ requested = 1
  /\ description = [i \in 1..NumSessions |-> Undefined]
  /\ chairs = [i \in 1..NumSessions |-> Undefined]
  /\ outcome = NoCall
  /\ previous = NoCall

\* setup-irc.mjs 61-66: the session is kept when its validation returns no
\* issue of severity error.
fanOutEnd(n, r) ==
  [tool EXCEPT !.calls[n].pc = r.outcome.kind,
               !.calls[n].kept = r.outcome.kind = "returned" /\ ~HasErrors(r.outcome)]

\* validate.mjs 67-70, up to the await of fetchSessionChairs, or to the end.
fanOutChairs(n, idx, descs) ==
  IF needsChairs(chairs[idx])
  THEN [tool EXCEPT !.calls[n] = FanOutCall("chairs", idx, FALSE)]
  ELSE fanOutEnd(n, validateRules(n, project, idx, descs, chairs, tool.now))

\* validate.mjs 34-52: validateSession(n, project) up to its first await.
StartValidation(n) ==
  /\ tool.calls[n].pc = "selected"
  /\ \A m \in 1..(n - 1): tool.calls[m].pc # "selected"
  /\ \E idx \in {findSession(project.sessions, n)}:
       tool' = IF Len(validateProject(project)) > 0 \/ idx = 0
               THEN [tool EXCEPT !.calls[n].pc = "thrown"]
               ELSE IF needsParsing(description[idx])
                    THEN [tool EXCEPT !.calls[n] = FanOutCall("handlers", idx, FALSE)]
                    ELSE fanOutChairs(n, idx, description)
  /\ UNCHANGED <<project, requested, description, chairs, outcome, previous>>

\* validate.mjs 52-70: from the end of initSectionHandlers() to the next await.
SectionHandlersReady(n) ==
  /\ tool.calls[n].pc = "handlers"
  /\ \E idx \in {tool.calls[n].idx}:
     \E formatErrors \in {validateSessionBody(bodyOf(project.sessions[idx]))}:
     \E parsed \in {parseSessionBody(bodyOf(project.sessions[idx]))}:
       IF formatErrorsStop(formatErrors)
       THEN /\ tool' = [tool EXCEPT !.calls[n].pc = "returned"]
            /\ UNCHANGED description
       ELSE IF parsed.threw
       THEN /\ tool' = [tool EXCEPT !.calls[n].pc = "thrown"]
            /\ UNCHANGED description
       ELSE /\ description' = [description EXCEPT ![idx] = parsed.value]
            /\ tool' = fanOutChairs(n, idx, description')
  /\ UNCHANGED <<project, requested, chairs, outcome, previous>>

\* validate.mjs 69-230: from the end of fetchSessionChairs to the return.
ChairsFetched(n, w3c) ==
  /\ tool.calls[n].pc = "chairs"
  /\ \E idx \in {tool.calls[n].idx}:
     \E fetched \in {fetchSessionChairs(project.sessions[idx], description[idx], w3c)}:
       IF fetched.threw
       THEN /\ tool' = [tool EXCEPT !.calls[n].pc = "thrown"]
            /\ UNCHANGED chairs
       ELSE /\ chairs' = [chairs EXCEPT ![idx] = fetched.value]
            /\ tool' = fanOutEnd(n, validateRules(n, project, idx, description, chairs',
                                                  tool.now))
  /\ UNCHANGED <<project, requested, description, outcome, previous>>

NextFanOut ==
  \/ \E n \in 1..NumSessions: StartValidation(n)
  \/ \E n \in 1..NumSessions: SectionHandlersReady(n)
  \/ \E n \in 1..NumSessions, w3c \in W3CAnswers \cup {"error"}: ChairsFetched(n, w3c)

SpecFanOut == InitFanOut /\ [][NextFanOut]_vars

----------------------------------------------------------------------------
(* setup-irc.mjs 79-157: the bot on the IRC server.  The channel of a      *)
(* session is '#' and its shortname; the sessions have distinct shortnames *)
(* and the channel of session n is n.  The server handles the commands of  *)
(* the bot in the order they were sent, and each event runs its listener.  *)

botName == "tpac-breakout-bot"
IrcBots == {"Zakim", "RRSAgent"}

Command(cmd, channel, arg) == [cmd |-> cmd, channel |-> channel, arg |-> arg]

\* The non-empty lists of selected valid sessions, sorted by number.
IrcSelections ==
  { SortSeq(list, LAMBDA a, b: a < b) :
      list \in { l \in UNION {[1..k -> 1..NumSessions] : k \in 1..NumSessions} :
                   \A i, j \in DOMAIN l: i # j => l[i] # l[j] } }

IrcTool(sessions, present) ==
  [ name |-> "irc", sessions |-> sessions, present |-> present,
    registered |-> FALSE, out |-> <<>>, onChannel |-> {}, joined |-> {},
    topic |-> [c \in 1..NumSessions |-> 0], inviting |-> {},
    done |-> [n \in 1..NumSessions |-> FALSE],
    fault |-> "", disconnected |-> FALSE ]

InitIrc ==
  /\ \E sessions \in IrcSelections, present \in SUBSET (IrcBots \X (1..NumSessions)):
       tool = IrcTool(sessions, present)
  /\ requested = 1
  /\ project = Project(Rooms, Slots, [i \in 1..NumSessions |-> Session(i, "plain", Unplaced)],
                       100)
  /\ description = [i \in 1..NumSessions |-> Undefined]
  /\ chairs = [i \in 1..NumSessions |-> Undefined]
  /\ outcome = NoCall
  /\ previous = NoCall

\* setup-irc.mjs 80 and 146: sessions.find(s => channel = '#' + getShortname(s)).
\* The test assigns the channel of s to `channel` and is true of the first
\* session: the session found and the value of `channel` afterwards, 0 if none.
findChannelSession(sessions, channel) ==
  IF sessions = <<>> THEN [session |-> 0, channel |-> channel]
  ELSE [session |-> sessions[1], channel |-> sessions[1]]

\* setup-irc.mjs 79-104: the commands that the bot sends when nick is in channel.
sendChannelBotCommands(sessions, channel, nick) ==
  Const(findChannelSession(sessions, channel), LAMBDA found:
    IF found.session = 0 THEN <<>>
    ELSE IF nick = botName
    THEN << Command("TOPIC", found.channel, found.session),
            Command("INVITE", found.channel, "Zakim"),
            Command("INVITE", found.channel, "RRSAgent") >>
    ELSE IF nick = "RRSAgent"
    THEN << Command("PRIVMSG", found.channel, found.session),
            Command("PART", found.channel, "") >>
    ELSE <<>>)

\* setup-irc.mjs 112-118: the bot is connected and joins the channels.
Registered ==
  /\ ~tool.registered /\ tool.fault = ""
  /\ tool' = [tool EXCEPT !.registered = TRUE,
                          !.out = Map(LAMBDA n: Command("JOIN", n, ""), tool.sessions)]
  /\ UNCHANGED <<project, requested, description, chairs, outcome, previous>>

\* setup-irc.mjs 142-157: the bot has left `channel`.
botParted(t, channel) ==
  Const(findChannelSession(t.sessions, channel), LAMBDA found:
    IF found.session = 0 THEN t
    ELSE Const([t.done EXCEPT ![found.session] = TRUE], LAMBDA done:
           [t EXCEPT !.done = done,
                     !.disconnected = \A k \in 1..Len(t.sessions): done[t.sessions[k]]]))

\* setup-irc.mjs 125-135: an error of the server other than err_useronchannel
\* is thrown by the listener.
serverError(t, error) == [t EXCEPT !.fault = error]

\* The server handles the next command of the bot, and the bot the event
\* that comes back (setup-irc.mjs 125-157).
ServerHandles ==
  /\ tool.out # <<>> /\ tool.fault = "" /\ ~tool.disconnected
  /\ \E m \in {Head(tool.out)}: \E t \in {[tool EXCEPT !.out = Tail(@)]}:
       tool' =
         IF m.cmd = "JOIN"
         THEN [t EXCEPT !.onChannel = @ \cup {m.channel}, !.joined = @ \cup {m.channel},
                        !.out = @ \o sendChannelBotCommands(t.sessions, m.channel, botName)]
         ELSE IF m.channel \notin t.onChannel THEN serverError(t, "err_notonchannel")
         ELSE IF m.cmd = "TOPIC" THEN [t EXCEPT !.topic[m.channel] = m.arg]
         ELSE IF m.cmd = "INVITE"
         THEN IF <<m.arg, m.channel>> \in t.present
              THEN [t EXCEPT !.out = @ \o sendChannelBotCommands(t.sessions, m.channel, m.arg)]
              ELSE [t EXCEPT !.inviting = @ \cup {<<m.arg, m.channel>>}]
         ELSE IF m.cmd = "PART"
         THEN botParted([t EXCEPT !.onChannel = @ \ {m.channel}], m.channel)
         ELSE t
  /\ UNCHANGED <<project, requested, description, chairs, outcome, previous>>

\* setup-irc.mjs 137-140: a bot that was invited joins the channel.
BotJoins(nick, channel) ==
  /\ <<nick, channel>> \in tool.inviting /\ tool.fault = "" /\ ~tool.disconnected
  /\ tool' = [tool EXCEPT !.inviting = @ \ {<<nick, channel>>},
                          !.present = @ \cup {<<nick, channel>>},
                          !.out = @ \o sendChannelBotCommands(tool.sessions, channel, nick)]
  /\ UNCHANGED <<project, requested, description, chairs, outcome, previous>>

NextIrc ==
  \/ Registered
  \/ ServerHandles
  \/ \E nick \in IrcBots, channel \in 1..NumSessions: BotJoins(nick, channel)

SpecIrc == InitIrc /\ [][NextIrc]_vars

\* The server answers every command and every invited bot joins in the end.
SpecIrcLive == SpecIrc /\ WF_vars(NextIrc)

----------------------------------------------------------------------------
(* Vocabulary of the properties of update-session-labels.mjs.              *)

LabelsRan == tool.ran
LabelsDone == tool.ran /\ tool.run.fault = ""
LabelSet(labels) == {labels[k] : k \in 1..Len(labels)}
SeverityLabels(labels) == {l \in LabelSet(labels) : l.prefix \in {"check: ", "warning: ", "error: "}}
OtherLabels(labels) == SelectSeq(labels, LAMBDA l: l.prefix \notin {"check: ", "warning: ", "error: "})
\* The labels of the session before the run, and those that the report asks for.
Have == SeverityLabels(Target.labels)
Want == {[prefix |-> SeverityPrefix(tool.run.report[k].severity),
          name |-> tool.run.report[k].type] : k \in 1..Len(tool.run.report)}
InCatalog(label) == \E k \in 1..Len(tool.catalog): tool.catalog[k].name = label
CatalogFault == tool.run.fault = "TypeError: project.labels.find(...) is undefined"
CheckComments == [prefix |-> "check: ", name |-> "comments"]
\* The content of the comments section of a body, Null when it has none.
CommentsIn(body) ==
  LET blocks == SelectSeq(body, LAMBDA b: b.heading = "Comments (Optional)")
  IN  IF blocks = <<>> THEN Null ELSE blocks[Len(blocks)].content
\* Validation reported check:comments and the session has no such label.
CommentsToAssess ==
  /\ LabelsRan /\ HasReturned /\ KnownSession
  /\ HasIssue(outcome, "check", "comments")
  /\ CheckComments \notin Have
PreviousGiven == tool.changesFile.given /\ tool.changesFile.from # ""
SameComments ==
  PreviousGiven /\ CommentsIn(revisionOf(tool.changesFile.from)) = CommentsIn(bodyOf(Target))
PreviousParses ==
  PreviousGiven /\ ~parseSessionBody(revisionOf(tool.changesFile.from)).threw

(* C11: after a run that applied its add set and its remove set, the       *)
(* "check: ", "warning: " and "error: " labels of the session are exactly  *)
(* the "severity: type" names of the issues of the reconciled report.      *)
C11_LabelsMatchReport ==
  LabelsDone => SeverityLabels(tool.run.labels) = Want
C11_Witness ==
  /\ LabelsDone /\ Len(tool.run.sent) = 2
  /\ Len(tool.run.report) >= 2
  /\ Have \ Want # {} /\ Have \cap Want # {}

(* C12: a run never adds or removes a label that does not start with       *)
(* "check: ", "warning: " or "error: ": those labels of the session are    *)
(* the same after the run, and no mutation carries one.                    *)
C12_OtherLabelsUntouched ==
  (LabelsRan /\ KnownSession) =>
     /\ OtherLabels(tool.run.labels) = OtherLabels(Target.labels)
     /\ \A k \in 1..Len(tool.run.sent): \A j \in 1..Len(tool.run.sent[k].ids):
          tool.run.sent[k].ids[j][2] \in {"check: ", "warning: ", "error: "}
C12_Witness ==
  /\ LabelsDone /\ KnownSession /\ Len(tool.run.sent) = 2
  /\ Privacy \in LabelSet(tool.run.labels)

(* C13: when the severity labels of the session already are the names of   *)
(* the issues of the report, the add set and the remove set are empty and  *)
(* no mutation is sent.                                                    *)
C13_FixedPoint ==
  (LabelsRan /\ KnownSession /\ HasReturned /\ Have = Want) =>
     /\ tool.run.toAdd = <<>> /\ tool.run.toRemove = <<>>
     /\ tool.run.sent = <<>>
C13_Witness ==
  /\ LabelsRan /\ KnownSession /\ HasReturned /\ Have = Want
  /\ Len(tool.run.report) >= 2

(* C14: when a label to add or to remove has no entry in the catalog, the  *)
(* run fails, and it fails before any mutation is sent.                    *)
C14_CatalogFaultBeforeMutation ==
  (LabelsRan /\ KnownSession /\ HasReturned) =>
     /\ (\E l \in (Want \ Have) \cup (Have \ Want): ~InCatalog(l)) => tool.run.fault # ""
     /\ CatalogFault => tool.run.sent = <<>>


(* C15: no tool fills a calendar entry or joins an IRC channel for a       *)
(* session whose own validation has an issue of severity error, and the    *)
(* session that a tool validates is the session that it is to act on.      *)
OwnValidation(n) ==
  validateSession(n, project, [i \in 1..NumSessions |-> Undefined],
                  [i \in 1..NumSessions |-> Undefined], tool.now, tool.w3c).outcome
ToActOn(n) ==
  IF tool.name = "setup-irc"
  THEN \E i \in 1..Len(project.sessions):
         /\ project.sessions[i].number = n /\ project.sessions[i].slot # ""
         /\ requested \in {0, n}
  ELSE n = requested
C15_ErrorsBlock ==
  \A k \in 1..Len(tool.run.acted): ~HasErrors(OwnValidation(tool.run.acted[k]))
C15_Downstream ==
  tool.ran =>
     /\ C15_ErrorsBlock
     /\ \A k \in 1..Len(tool.run.checked): ToActOn(tool.run.checked[k])
     /\ \A k \in 1..Len(tool.run.acted):
          \E j \in 1..Len(tool.run.checked): tool.run.checked[j] = tool.run.acted[k]

(* C16: after a run of manage-repo-labels.mjs that ends without a fault,   *)
(* the labels of the repository are the reference labels, each with the    *)
(* reference description and colour, and the "track: " labels that the     *)
(* repository had.                                                         *)
Values(repositoryLabels) ==
  {[name |-> repositoryLabels[k].name, description |-> repositoryLabels[k].description,
    color |-> repositoryLabels[k].color] : k \in 1..Len(repositoryLabels)}
C16_RepoLabels ==
  (tool.ran /\ tool.run.fault = "") =>
     Values(tool.run.labels)
       = Values(referenceLabels)
           \cup {l \in Values(tool.before) : l.name.prefix = "track: "}

(* C17: the chairs check emits one error:chairs issue with one message per *)
(* chair that has no W3C id, and no error:chairs issue when every chair    *)
(* has one.                                                                *)
Resolved == chairs[TargetIdx] # Undefined
OffendingChairs == SelectSeq(chairs[TargetIdx].v, LAMBDA chair: ~Truthy(chair.w3cId))
C17_Chairs ==
  (Validated /\ Resolved) =>
     /\ OffendingChairs # <<>> =>
          /\ HasReturned
          /\ Len(IssuesOfType(outcome, "error", "chairs")) = 1
          /\ Len(IssuesOfType(outcome, "error", "chairs")[1].messages)
               = Len(OffendingChairs)
     /\ (HasReturned /\ OffendingChairs = <<>>) => ~HasIssue(outcome, "error", "chairs")

(* C18: warning:conflict is emitted iff the session has a slot, declares   *)
(* at least one conflict, every declared number passes the existence       *)
(* check, and some declared session has the same slot; the issue has one   *)
(* message per such session.                                               *)
SameSlotConflicts ==
  SelectSeq(DeclaredConflicts, LAMBDA n:
    \E i \in 1..Len(project.sessions):
      project.sessions[i].number = n /\ project.sessions[i].slot = Target.slot)
ConflictWarningDue ==
  /\ Target.slot # ""
  /\ DeclaredConflicts # <<>>
  /\ OffendingConflicts = <<>>
  /\ SameSlotConflicts # <<>>
C18_ConflictWarning ==
  Validated =>
     /\ ConflictWarningDue =>
          /\ HasReturned
          /\ Len(IssuesOfType(outcome, "warning", "conflict")) = 1
          /\ Len(IssuesOfType(outcome, "warning", "conflict")[1].messages)
               = Len(SameSlotConflicts)
     /\ (HasReturned /\ HasIssue(outcome, "warning", "conflict")) => ConflictWarningDue

(* C19: for a scheduled session, warning:minutes is emitted iff the        *)
(* minutes of the body are absent or a placeholder and the event is more   *)
(* than 48 hours before the clock reading; never for an unscheduled        *)
(* session.                                                                *)
MinutesInBody ==
  LET blocks == SelectSeq(bodyOf(Target), LAMBDA b:
                  b.heading = "Meeting materials" /\ b.content.t = "lines")
      lines == IF blocks = <<>> THEN <<>>
               ELSE SelectSeq(blocks[Len(blocks)].content.v,
                              LAMBDA l: l.bullet /\ l.kind = "Minutes")
  IN  IF lines = <<>> THEN "" ELSE lines[Len(lines)].val
MinutesAbsentOrPlaceholder ==
  MinutesInBody = "" \/ ToUpperCase(MinutesInBody) \in MissingSentinels
C19_Minutes ==
  (Validated /\ HasReturned) =>
     /\ isScheduled(Target) =>
          (HasIssue(outcome, "warning", "minutes")
             <=> (MinutesAbsentOrPlaceholder
                  /\ outcome.now - project.metadata.date > twoDaysInHours))
     /\ ~isScheduled(Target) => ~HasIssue(outcome, "warning", "minutes")

(* C20 as stated: when check:comments is reported for a session without    *)
(* the label and the previous version has the same comments section, the   *)
(* label is not added; it is added only when the comments changed or no    *)
(* previous version is given.                                              *)
C20_CommentsLabel ==
  CommentsToAssess =>
     /\ SameComments => CheckComments \notin LabelSet(tool.run.toAdd)
     /\ CheckComments \in LabelSet(tool.run.toAdd) => (~PreviousGiven \/ ~SameComments)

(* C20, amended: the same for a previous version that parseSessionBody     *)
(* can parse; a previous version that it cannot parse counts as changed.   *)
C20_CommentsLabelParsed ==
  CommentsToAssess =>
     /\ (SameComments /\ PreviousParses) => CheckComments \notin LabelSet(tool.run.toAdd)
     /\ CheckComments \in LabelSet(tool.run.toAdd)
          => (~PreviousGiven \/ ~SameComments \/ ~PreviousParses)
C20_Witness ==
  /\ CommentsToAssess /\ SameComments /\ PreviousParses
  /\ LabelsDone
  /\ tool.run.sent # <<>>
  /\ CheckComments \notin LabelSet(tool.run.labels)

(* C21: when no previous version of the body is given, or the previous     *)
(* version cannot be parsed, check:comments stays in the report and the    *)
(* "check: comments" label is in the set to add, and on the session when   *)
(* the run ends without fault.                                             *)
NoComparison == ~PreviousGiven \/ ~PreviousParses
C21_ConservativeComments ==
  (CommentsToAssess /\ NoComparison) =>
     /\ \E k \in 1..Len(tool.run.report): IsCommentsCheck(tool.run.report[k])
     /\ CatalogFault \/ CheckComments \in LabelSet(tool.run.toAdd)
     /\ LabelsDone => CheckComments \in LabelSet(tool.run.labels)
C21_Witness ==
  /\ CommentsToAssess /\ PreviousGiven /\ ~PreviousParses
  /\ LabelsDone
  /\ CheckComments \in LabelSet(tool.run.labels)

(* C22: a run started again on the same event after a run that failed      *)
(* between its two mutations, the issues being the same, ends (when it     *)
(* ends without fault) with the severity labels of the session equal to    *)
(* the names of the report; started again after a run that ended without   *)
(* fault, it sends no mutation.                                            *)
LastFailedHalfway ==
  /\ tool.last.fault # ""
  /\ \E k \in 1..Len(tool.last.sent): tool.last.sent[k].op = "add"
  /\ tool.last.toRemove # <<>>
RunAgain == tool.ran /\ tool.replay /\ tool.run.report = tool.last.report
C22_SafeToRunAgain ==
  RunAgain =>
     /\ (LastFailedHalfway /\ tool.run.fault = "") =>
          SeverityLabels(project.sessions[1].labels) = Want
     /\ tool.last.fault = "" => tool.run.sent = <<>>
C22_Witness ==
  /\ RunAgain /\ LastFailedHalfway /\ tool.run.fault = ""
  /\ tool.run.sent # <<>>
  /\ SeverityLabels(project.sessions[1].labels) = Want

(* C27: after the latest run of the label tool, no label having been       *)
(* removed by hand, a session whose body passes the format check and has   *)
(* comments carries the "check: comments" label.                           *)
HasComments == CommentsIn(bodyOf(project.sessions[1])) \notin {Null, NoResponse}
C27_CommentsFlagged ==
  (tool.ran /\ tool.run.fault = ""
     /\ validateSessionBody(bodyOf(project.sessions[1])) = <<>> /\ HasComments)
  => CheckComments \in LabelSet(project.sessions[1].labels)

(* C23: once session.description is set, no call of validateSession sets   *)
(* it again, and the same for session.chairs: later calls keep the cached  *)
(* values.                                                                 *)
C23_CachedOnce ==
  [][\A i \in 1..NumSessions:
       /\ description[i] # Undefined => description'[i] = description[i]
       /\ chairs[i] # Undefined => chairs'[i] = chairs[i]]_vars
C23_Witness ==
  /\ KnownSession
  /\ previous.kind = "returned" /\ outcome.kind = "returned"
  /\ previous.now < outcome.now
  /\ description[TargetIdx] # Undefined
  /\ chairs[TargetIdx] # Undefined
  /\ HasIssue(outcome, "error", "chairs")

(* C25: every issue of a returned list has the number of the session, a    *)
(* severity among error, warning and check, a type of the closed set and a *)
(* list of messages.                                                       *)
IssueTypes ==
  {"format", "chairs", "conflict", "scheduling", "capacity", "track", "agenda",
   "minutes", "comments"}
C26_OneRequestPerId == \A id \in AccountIds: tool.requests[id] <= 1

(* C29: a body whose agenda or minutes is one of the placeholders of the   *)
(* missing-material check, in any letter case, passes the format check: no *)
(* error:format is returned for it.                                        *)
UsesPlaceholder ==
  \/ (AgendaInBody # "" /\ ToUpperCase(AgendaInBody) \in MissingSentinels)
  \/ (MinutesInBody # "" /\ ToUpperCase(MinutesInBody) \in MissingSentinels)
C29_PlaceholdersAccepted ==
  (Called /\ ValidProject /\ KnownSession /\ HasReturned /\ UsesPlaceholder) =>
    ~HasIssue(outcome, "error", "format")

(* C28: on a repository whose labels are those that manage-repo-labels.mjs *)
(* sets up, a run never fails on a label that the catalog does not have;   *)
(* and a label of that list that no rule produces, put on the session by   *)
(* hand, is still on the session after a run.                              *)
Provisioned ==
  \A k \in 1..Len(tool.catalog):
    tool.catalog[k].name \in LabelSet(referenceNames) \cup {Privacy, Media}
ManualLabels ==
  { Label("check: ", "instructions"), Label("error: ", "chair conflict"),
    Label("warning: ", "duration"), Label("warning: ", "minutes origin") }
C28_ProvisionedLabels ==
  (LabelsRan /\ KnownSession) =>
     /\ Provisioned => ~CatalogFault
     /\ LabelsDone =>
          \A l \in Have \cap ManualLabels: l \in LabelSet(tool.run.labels)

\* Each half of C28 on its own.
C28_NoMissingEntry == (LabelsRan /\ KnownSession /\ Provisioned) => ~CatalogFault
C28_ManualLabelsKept ==
  (LabelsDone /\ KnownSession) =>
     \A l \in Have \cap ManualLabels: l \in LabelSet(tool.run.labels)

(* C24: while the validations of distinct sessions of one project run      *)
(* together, the description and the chairs of a session are written at    *)
(* most once each, by the validation of that session and no other, and the *)
(* rooms, the slots, the labels and the sessions of the project are never  *)
(* written.                                                                *)
C24_FanOutWrites ==
  [][ /\ project' = project
      /\ \A i \in 1..NumSessions:
           /\ description'[i] # description[i] =>
                /\ description[i] = Undefined
                /\ tool.calls[i].pc = "handlers" /\ tool'.calls[i].pc # "handlers"
           /\ chairs'[i] # chairs[i] =>
                /\ chairs[i] = Undefined
                /\ tool.calls[i].pc = "chairs" /\ tool'.calls[i].pc # "chairs" ]_vars
\* Two validations wait for their chairs at the same time, and one that
\* started later has ended before.
C24_Witness ==
  \E i, j \in 1..NumSessions:
    /\ i < j
    /\ tool.calls[i].pc = "chairs" /\ description[i] # Undefined
    /\ tool.calls[j].pc = "returned" /\ chairs[j] # Undefined

(* C30: the topic that the bot sets on the channel of a selected session   *)
(* is the topic of that session, a session is marked done only once the    *)
(* bot has left the channel of that session, and in the end the bot        *)
(* disconnects, having left the channel of every selected session.         *)
IrcSelected == {tool.sessions[k] : k \in 1..Len(tool.sessions)}
TopicOfOwnSession ==
  \A n \in IrcSelected:
    n \in tool.joined =>
      \/ tool.topic[n] = n
      \/ \E k \in 1..Len(tool.out): tool.out[k] = Command("TOPIC", n, n)
DoneOnOwnPart ==
  \A n \in IrcSelected: tool.done[n] => (n \in tool.joined /\ n \notin tool.onChannel)
Disconnected ==
  tool.disconnected /\ \A n \in IrcSelected: n \in tool.joined /\ n \notin tool.onChannel
C30_IrcSetup == [](TopicOfOwnSession /\ DoneOnOwnPart) /\ <>Disconnected

\* The three parts of C30 one by one.
C30_Topics == TopicOfOwnSession
C30_Done == DoneOnOwnPart
C30_Disconnects == <>Disconnected
\* For one session alone the bot disconnects.
C30_AloneDisconnects == (Len(tool.sessions) = 1) ~> Disconnected

====
